---- MODULE Spec2Model ----
(***************************************************************************)
(* PersistentCachedMinio (cfs3/s3cache.py): a persistent metadata cache    *)
(* in front of a remote object store.  The store (SQLite tables objects    *)
(* and buckets), the clock, the database file size and the remote service  *)
(* are the state; every public method is one action.                       *)
(***************************************************************************)
EXTENDS Integers, Sequences, FiniteSets, TLC

\* ------------------------------------------------------------------ bounds
\* last clock value reached by Tick
MaxTime == 3
\* highest version (etag) the remote service gives an object
MaxVersion == 2
\* rows deleted per eviction batch (LIMIT 100 in the code, scaled down)
EvictBatch == 2

\* ------------------------------------------------------------ value domains
\* Python None and SQL NULL are <<>>; a value x that is present is <<x>>.
None == <<>>

Some(x) == <<x>>

BucketNames == {"b1", "b2"}

\* object names, in the lexicographic order the remote service lists them
KeyOrder == <<"a", "b", "c">>

KeyNames == {KeyOrder[i] : i \in 1..Len(KeyOrder)}

Keys == BucketNames \X KeyNames

\* a mapping of string to string is a set of <<name, value>> pairs
EmptyMap == {}

Mappings == {EmptyMap, {<<"t", "1">>}, {<<"t", "2">>}}

\* CacheMode
Modes == {"DEFAULT", "BYPASS", "CACHE_ONLY", "FORCE_REFRESH"}

\* ------------------------------------------------------ Python truthiness
\* `x if d else None` on an Optional[dict]: None and {} are both falsy
TruthyDict(d) == d # None /\ d[1] # EmptyMap

\* `if row["tags"]` on a TEXT column: NULL and the empty string are falsy
TruthyText(t) == t # None /\ Len(t[1]) > 0

\* `if cached_at` on a REAL column: NULL and 0.0 are falsy
TruthyNum(n) == n # None /\ n[1] # 0

\* ------------------------------------------------------------------- json
\* json.dumps of a dict: the text is a sequence of tokens "{" name ":" value ... "}"
RECURSIVE JsonMembers(_)
JsonMembers(d) ==
    IF d = {} THEN <<>>
    ELSE LET p == CHOOSE q \in d : TRUE
         IN  <<p[1], ":", p[2]>> \o JsonMembers(d \ {p})

JsonDumps(d) == <<"{">> \o JsonMembers(d) \o <<"}">>

\* json.loads of such a text
JsonLoads(t) == {<<t[3 * j - 1], t[3 * j + 1]>> : j \in 1..((Len(t) - 2) \div 3)}

\* _isoformat(dt): None stays None (a datetime is always truthy)
Isoformat(dt) == IF dt # None THEN Some(<<"iso", dt[1]>>) ELSE None

\* datetime.fromisoformat on the stored text
FromIsoformat(t) == t[2]

\* ------------------------------------------------------------- store rows
\* _get_row: SELECT * FROM objects WHERE bucket=? AND key=?
GetRow(objs, b, k) == objs[<<b, k>>]

\* a staleness test that calls every row stale
IsRowStaleAlways(row, ttl_, now_) == TRUE

\* a staleness test that calls a row of age ttl stale
IsRowStaleAtTtl(row, ttl_, now_) ==
    IF row = None THEN TRUE
    ELSE IF ttl_ <= 0 THEN FALSE
    ELSE IF row[1].cached_at = None THEN TRUE
    ELSE (now_ - row[1].cached_at[1]) >= ttl_

\* _is_row_stale(row) with self.ttl and _now()
IsRowStale(row, ttl_, now_) ==
    IF row = None THEN TRUE
    ELSE IF ttl_ <= 0 THEN FALSE
    ELSE IF row[1].cached_at = None THEN TRUE
    ELSE (now_ - row[1].cached_at[1]) > ttl_

\* a row inserted with no cached_at
NewRowUndated(etag, size, last_modified, metadata, tags, now_) ==
    [etag          |-> etag,
     size          |-> size,
     last_modified |-> Isoformat(last_modified),
     metadata      |-> IF TruthyDict(metadata) THEN Some(JsonDumps(metadata[1])) ELSE None,
     tags          |-> IF TruthyDict(tags) THEN Some(JsonDumps(tags[1])) ELSE None,
     cached_at     |-> None]

\* the VALUES tuple of INSERT OR REPLACE in _write_object_row
NewRow(etag, size, last_modified, metadata, tags, now_) ==
    [etag          |-> etag,
     size          |-> size,
     last_modified |-> Isoformat(last_modified),
     metadata      |-> IF TruthyDict(metadata) THEN Some(JsonDumps(metadata[1])) ELSE None,
     tags          |-> IF TruthyDict(tags) THEN Some(JsonDumps(tags[1])) ELSE None,
     cached_at     |-> Some(now_)]

\* _obj_from_row(row): the minio Object rebuilt from a row
ObjFromRow(b, k, row) ==
    [bucket_name   |-> b,
     object_name   |-> k,
     last_modified |-> IF TruthyText(row.last_modified)
                       THEN Some(FromIsoformat(row.last_modified[1])) ELSE None,
     etag          |-> row.etag,
     size          |-> row.size,
     metadata      |-> IF TruthyText(row.metadata)
                       THEN Some(JsonLoads(row.metadata[1])) ELSE None]

\* _rows_to_cached_objects, for one row
RowToCachedObject(b, k, row, ttl_, now_) ==
    LET cached_at == row.cached_at
        age       == IF TruthyNum(cached_at) THEN Some(now_ - cached_at[1]) ELSE None
        stale     == IF cached_at = None THEN TRUE
                     ELSE IF ttl_ > 0 /\ age # None THEN age[1] > ttl_
                     ELSE FALSE
    IN  [obj         |-> Some(ObjFromRow(b, k, row)),
         bucket      |-> b,
         key         |-> k,
         metadata    |-> IF TruthyText(row.metadata)
                         THEN Some(JsonLoads(row.metadata[1])) ELSE None,
         tags        |-> IF TruthyText(row.tags) THEN Some(JsonLoads(row.tags[1])) ELSE None,
         cached      |-> TRUE,
         cached_at   |-> cached_at,
         age_seconds |-> age,
         stale       |-> stale,
         source      |-> "cache"]

\* a miss reported as if a record had been found
MissObjectAsHit(b, k) ==
    [obj |-> None, bucket |-> b, key |-> k, metadata |-> None, tags |-> None,
     cached |-> TRUE, cached_at |-> None, age_seconds |-> None, stale |-> TRUE,
     source |-> "cache"]

\* the CachedObject of a CACHE_ONLY miss
MissObject(b, k) ==
    [obj |-> None, bucket |-> b, key |-> k, metadata |-> None, tags |-> None,
     cached |-> FALSE, cached_at |-> None, age_seconds |-> None, stale |-> TRUE,
     source |-> "none"]

\* a fetched stat reported as if it had been read from the store
FreshObjectAsCache(b, k, stat, now_) ==
    [obj |-> Some(stat), bucket |-> b, key |-> k, metadata |-> stat.metadata,
     tags |-> None, cached |-> TRUE, cached_at |-> Some(now_), age_seconds |-> Some(0),
     stale |-> FALSE, source |-> "cache"]

\* the CachedObject built from a freshly fetched stat
FreshObject(b, k, stat, now_) ==
    [obj |-> Some(stat), bucket |-> b, key |-> k, metadata |-> stat.metadata,
     tags |-> None, cached |-> TRUE, cached_at |-> Some(now_), age_seconds |-> Some(0),
     stale |-> FALSE, source |-> "s3"]

\* --------------------------------------------------------- database file
\* 1 MiB in bytes: limit_bytes = int(self.max_db_size_mb * 1024 * 1024)
MiB == 1024 * 1024

LimitBytes(cap) == cap * MiB

\* os.path.getsize(self.db_path): the file is small, or has outgrown every
\* configured cap
FileSizes == {0, 2 * MiB}

\* os.path.getsize(db_path) after a commit that inserted or updated a row: the
\* file stays as it was or grows.  The size is read only when a cap is configured
\* and is tracked only then.
FileAfterWrite(size, cap) ==
    IF cap > 0 THEN {s \in FileSizes : s >= size} ELSE {size}

\* os.path.getsize(db_path) after a commit that deleted rows: the file never
\* grows; whether it shrinks is up to the storage engine.
FileAfterDelete(size, cap) ==
    IF cap > 0 THEN {s \in FileSizes : s <= size} ELSE {size}

\* ---------------------------------------------------------------- eviction
Present(objs) == {kk \in Keys : objs[kk] # None}

\* ORDER BY cached_at ASC: NULL sorts before every number
CachedAtRank(row) == IF row[1].cached_at = None THEN -1 ELSE row[1].cached_at[1]

\* a batch query ordered by cached_at DESC: the newest rows
NewestBatches(objs) ==
    LET P == Present(objs)
        n == IF Cardinality(P) < EvictBatch THEN Cardinality(P) ELSE EvictBatch
    IN  {B \in SUBSET P :
            /\ Cardinality(B) = n
            /\ \A x \in B, y \in P \ B : CachedAtRank(objs[x]) >= CachedAtRank(objs[y])}

\* SELECT bucket, key FROM objects ORDER BY cached_at ASC LIMIT 100: every set of
\* rows the query may return (rows of equal cached_at come in any order)
OldestBatches(objs) ==
    LET P == Present(objs)
        n == IF Cardinality(P) < EvictBatch THEN Cardinality(P) ELSE EvictBatch
    IN  {B \in SUBSET P :
            /\ Cardinality(B) = n
            /\ \A x \in B, y \in P \ B : CachedAtRank(objs[x]) <= CachedAtRank(objs[y])}

\* a DELETE that removes no row
DeleteRowsNone(objs, B) == objs

\* DELETE FROM objects WHERE bucket=? AND key=?, for every key of B
DeleteRows(objs, B) == [kk \in Keys |-> IF kk \in B THEN None ELSE objs[kk]]

\* the `while True` loop of _enforce_db_size_limit: the set of <<objects, file
\* size>> it can end in
RECURSIVE EvictLoop(_, _, _)
EvictLoop(objs, size, cap) ==
    IF size <= LimitBytes(cap) THEN {<<objs, size>>}
    ELSE IF Present(objs) = {} THEN {<<objs, size>>}
    ELSE UNION {EvictLoop(DeleteRows(objs, B), s, cap) :
                    B \in OldestBatches(objs), s \in FileAfterDelete(size, cap)}

\* _enforce_db_size_limit.  os.path.getsize raising OSError (db_path ":memory:")
\* returns before any delete, as max_db_size_mb = 0 does.
EnforceDbSizeLimit(objs, size, cap) ==
    IF size <= LimitBytes(cap) THEN {<<objs, size>>} ELSE EvictLoop(objs, size, cap)

\* `if self.max_db_size_mb and self.max_db_size_mb > 0: self._enforce_db_size_limit()`
AfterCommit(objs, size, cap) ==
    IF cap # 0 /\ cap > 0
    THEN UNION {EnforceDbSizeLimit(objs, s, cap) : s \in FileAfterWrite(size, cap)}
    ELSE {<<objs, size>>}

\* an upsert that keeps the stored tags when it is given none
UpsertKeepingTags(objs, size, cap, b, k, etag, osize, last_modified, metadata, tags, now_) ==
    AfterCommit([objs EXCEPT ![<<b, k>>] =
                    Some([NewRow(etag, osize, last_modified, metadata, tags, now_)
                            EXCEPT !.tags = IF tags = None /\ objs[<<b, k>>] # None
                                            THEN objs[<<b, k>>][1].tags ELSE @])],
                size, cap)

\* _write_object_row: INSERT OR REPLACE, commit, eviction check
WriteObjectRow(objs, size, cap, b, k, etag, osize, last_modified, metadata, tags, now_) ==
    AfterCommit([objs EXCEPT ![<<b, k>>] =
                    Some(NewRow(etag, osize, last_modified, metadata, tags, now_))],
                size, cap)

\* an update that rewrites the row and keeps no metadata
TagsUpdatedWholeRow(row, tags, now_) ==
    [row EXCEPT !.tags = Some(JsonDumps(tags)), !.cached_at = Some(now_), !.metadata = None]

\* the row after UPDATE objects SET tags=?, cached_at=?
TagsUpdated(row, tags, now_) ==
    [row EXCEPT !.tags = Some(JsonDumps(tags)), !.cached_at = Some(now_)]

\* _update_tags_row: UPDATE ... WHERE bucket=? AND key=? (no row: nothing
\* changes), commit, eviction check
UpdateTagsRow(objs, size, cap, b, k, tags, now_) ==
    AfterCommit(IF objs[<<b, k>>] = None THEN objs
                ELSE [objs EXCEPT ![<<b, k>>] = Some(TagsUpdated(objs[<<b, k>>][1], tags, now_))],
                size, cap)

\* a delete that leaves the row in the table
DeleteObjectRowKept(objs, size, cap, b, k) ==
    {<<objs, s>> : s \in FileAfterDelete(size, cap)}

\* _delete_object_row
DeleteObjectRow(objs, size, cap, b, k) ==
    {<<DeleteRows(objs, {<<b, k>>}), s>> : s \in FileAfterDelete(size, cap)}

\* ----------------------------------------------------------- remote service
\* what self._client.stat_object returns for a remote object
StatOf(b, k, robj) ==
    [bucket_name   |-> b,
     object_name   |-> k,
     last_modified |-> Some(100 + robj.ver),
     etag          |-> Some(robj.ver),
     size          |-> Some(10 * robj.ver),
     metadata      |-> robj.metadata]

\* one remote call a handler issued, and whether it returned (ok) or raised
RemoteCall(name, b, k, ok) == [call |-> name, bucket |-> b, key |-> k, ok |-> ok]

\* self._client.stat_object(bucket, key) raises: a transient failure, or no such key
StatRaises(rem, b, k, fail) == fail \/ rem[<<b, k>>] = None

\* ----------------------------------------------------------------- handlers
\* What a handler leaves behind: the objects table, the file size, the remote
\* objects, the CachedObjects returned (yielded), the remote calls issued and
\* whether it raised.
Outcome(objs, size, rem, out, calls, raised) ==
    [objs |-> objs, size |-> size, rem |-> rem, out |-> out, calls |-> calls,
     raised |-> raised]

\* a mode test that never recognises CACHE_ONLY
IsCacheOnlyNever(mode) == mode = "CACHE_ONLY" /\ mode = "DEFAULT"

\* `cache_mode == CacheMode.CACHE_ONLY`
IsCacheOnly(mode) == mode = "CACHE_ONLY"

\* stat_object(bucket, key, cache_mode); `fail`: the remote stat raises
StatObject(objs, size, rem, cap, ttl_, now_, b, k, mode, fail) ==
    LET row    == GetRow(objs, b, k)
        cached == RowToCachedObject(b, k, row[1], ttl_, now_)
        call   == RemoteCall("stat_object", b, k, ~StatRaises(rem, b, k, fail))
    IN  IF IsCacheOnly(mode)
        THEN {Outcome(objs, size, rem,
                      <<IF row = None THEN MissObject(b, k) ELSE cached>>, <<>>, FALSE)}
        ELSE IF /\ row # None
                /\ mode # "BYPASS"
                /\ mode = "DEFAULT"
                /\ ~IsRowStale(row, ttl_, now_)
        THEN {Outcome(objs, size, rem, <<cached>>, <<>>, FALSE)}
        ELSE IF StatRaises(rem, b, k, fail)
        THEN IF row # None
             THEN {Outcome(objs, size, rem, <<cached>>, <<call>>, FALSE)}
             ELSE {Outcome(objs, size, rem, <<>>, <<call>>, TRUE)}
        ELSE LET stat == StatOf(b, k, rem[<<b, k>>][1])
             IN  {Outcome(w[1], w[2], rem, <<FreshObject(b, k, stat, now_)>>, <<call>>, FALSE) :
                    w \in WriteObjectRow(objs, size, cap, b, k, stat.etag, stat.size,
                                         stat.last_modified, stat.metadata, None, now_)}

\* a row's tags reported as fetched from the remote service
TagsObjectFromRowAsFetched(b, k, row, cached, source, ttl_, now_) ==
    [obj         |-> Some(ObjFromRow(b, k, row)),
     bucket      |-> b,
     key         |-> k,
     metadata    |-> IF TruthyText(row.metadata) THEN Some(JsonLoads(row.metadata[1])) ELSE None,
     tags        |-> IF TruthyText(row.tags) THEN Some(JsonLoads(row.tags[1])) ELSE None,
     cached      |-> cached,
     cached_at   |-> row.cached_at,
     age_seconds |-> IF TruthyNum(row.cached_at) THEN Some(now_ - row.cached_at[1]) ELSE None,
     stale       |-> IsRowStale(Some(row), ttl_, now_),
     source      |-> "s3"]

\* the CachedObject get_object_tags builds from a row it read
TagsObjectFromRow(b, k, row, cached, source, ttl_, now_) ==
    [obj         |-> Some(ObjFromRow(b, k, row)),
     bucket      |-> b,
     key         |-> k,
     metadata    |-> IF TruthyText(row.metadata) THEN Some(JsonLoads(row.metadata[1])) ELSE None,
     tags        |-> IF TruthyText(row.tags) THEN Some(JsonLoads(row.tags[1])) ELSE None,
     cached      |-> cached,
     cached_at   |-> row.cached_at,
     age_seconds |-> IF TruthyNum(row.cached_at) THEN Some(now_ - row.cached_at[1]) ELSE None,
     stale       |-> IsRowStale(Some(row), ttl_, now_),
     source      |-> source]

\* the CachedObject get_object_tags returns after a remote tag fetch; `row` is
\* the row read back after the write
TagsObjectFetched(b, k, row, tags, now_) ==
    [obj         |-> IF row # None THEN Some(ObjFromRow(b, k, row[1])) ELSE None,
     bucket      |-> b,
     key         |-> k,
     metadata    |-> IF row # None /\ TruthyText(row[1].metadata)
                     THEN Some(JsonLoads(row[1].metadata[1])) ELSE None,
     tags        |-> Some(tags),
     cached      |-> TRUE,
     cached_at   |-> IF row # None THEN row[1].cached_at ELSE Some(now_),
     age_seconds |-> Some(0),
     stale       |-> FALSE,
     source      |-> "s3"]

\* get_object_tags(bucket, key, cache_mode); `failTags`, `failStat`: the remote
\* tag fetch, the remote stat that fills a new row, raises
GetObjectTags(objs, size, rem, cap, ttl_, now_, b, k, mode, failTags, failStat) ==
    LET row       == GetRow(objs, b, k)
        tags      == IF TruthyText(row[1].tags) THEN Some(JsonLoads(row[1].tags[1])) ELSE None
        tagsRaise == failTags \/ rem[<<b, k>>] = None
        tagCall   == RemoteCall("get_object_tags", b, k, ~tagsRaise)
        statCall  == RemoteCall("stat_object", b, k, ~StatRaises(rem, b, k, failStat))
        fetched   == rem[<<b, k>>][1].tags
        stat      == StatOf(b, k, rem[<<b, k>>][1])
    IN  IF /\ row # None
           /\ tags # None
           /\ mode # "BYPASS"
           /\ mode = "DEFAULT"
           /\ ~IsRowStale(row, ttl_, now_)
        THEN {Outcome(objs, size, rem,
                      <<TagsObjectFromRow(b, k, row[1], TRUE, "cache", ttl_, now_)>>,
                      <<>>, FALSE)}
        ELSE IF row # None /\ IsCacheOnly(mode)
        THEN {Outcome(objs, size, rem,
                      <<TagsObjectFromRow(b, k, row[1], tags # None,
                                          IF tags # None THEN "cache" ELSE "none",
                                          ttl_, now_)>>,
                      <<>>, FALSE)}
        ELSE IF IsCacheOnly(mode)
        THEN {Outcome(objs, size, rem, <<MissObject(b, k)>>, <<>>, FALSE)}
        ELSE IF tagsRaise
        THEN IF row # None
             THEN {Outcome(objs, size, rem,
                           <<TagsObjectFromRow(b, k, row[1], TruthyDict(tags),
                                               IF TruthyDict(tags) THEN "cache" ELSE "none",
                                               ttl_, now_)>>,
                           <<tagCall>>, FALSE)}
             ELSE {Outcome(objs, size, rem, <<>>, <<tagCall>>, TRUE)}
        ELSE IF row = None
        THEN {Outcome(w[1], w[2], rem,
                      <<TagsObjectFetched(b, k, GetRow(w[1], b, k), fetched, now_)>>,
                      <<tagCall, statCall>>, FALSE) :
                w \in IF StatRaises(rem, b, k, failStat)
                      THEN WriteObjectRow(objs, size, cap, b, k, None, None, None, None,
                                          Some(fetched), now_)
                      ELSE WriteObjectRow(objs, size, cap, b, k, stat.etag, stat.size,
                                          stat.last_modified, stat.metadata,
                                          Some(fetched), now_)}
        ELSE {Outcome(w[1], w[2], rem,
                      <<TagsObjectFetched(b, k, GetRow(w[1], b, k), fetched, now_)>>,
                      <<tagCall>>, FALSE) :
                w \in UpdateTagsRow(objs, size, cap, b, k, fetched, now_)}

\* a removal that deletes the row before the remote call
RemoveObjectRowFirst(objs, size, rem, cap, b, k, fail) ==
    {Outcome(w[1], w[2], IF fail THEN rem ELSE [rem EXCEPT ![<<b, k>>] = None], <<>>,
             <<RemoteCall("remove_object", b, k, ~fail)>>, fail) :
        w \in DeleteObjectRow(objs, size, cap, b, k)}

\* remove_object(bucket, key); `fail`: the remote removal raises
RemoveObject(objs, size, rem, cap, b, k, fail) ==
    IF fail
    THEN {Outcome(objs, size, rem, <<>>, <<RemoteCall("remove_object", b, k, FALSE)>>, TRUE)}
    ELSE {Outcome(w[1], w[2], [rem EXCEPT ![<<b, k>>] = None], <<>>,
                  <<RemoteCall("remove_object", b, k, TRUE)>>, FALSE) :
            w \in DeleteObjectRow(objs, size, cap, b, k)}

\* a set_object_tags that invalidates the row instead of updating it
SetObjectTagsInvalidating(objs, size, rem, cap, now_, b, k, tags, fail) ==
    IF fail \/ rem[<<b, k>>] = None
    THEN {Outcome(objs, size, rem, <<>>, <<RemoteCall("set_object_tags", b, k, FALSE)>>, TRUE)}
    ELSE {Outcome(w[1], w[2], [rem EXCEPT ![<<b, k>>] = Some([@[1] EXCEPT !.tags = tags])],
                  <<>>, <<RemoteCall("set_object_tags", b, k, TRUE)>>, FALSE) :
            w \in DeleteObjectRow(objs, size, cap, b, k)}

\* set_object_tags(bucket, key, tags); `fail`: the remote call raises
SetObjectTags(objs, size, rem, cap, now_, b, k, tags, fail) ==
    IF fail \/ rem[<<b, k>>] = None
    THEN {Outcome(objs, size, rem, <<>>, <<RemoteCall("set_object_tags", b, k, FALSE)>>, TRUE)}
    ELSE {Outcome(w[1], w[2], [rem EXCEPT ![<<b, k>>] = Some([@[1] EXCEPT !.tags = tags])],
                  <<>>, <<RemoteCall("set_object_tags", b, k, TRUE)>>, FALSE) :
            w \in UpdateTagsRow(objs, size, cap, b, k, tags, now_)}

\* -------------------------------------------------------------- list_objects
\* key LIKE 'prefix%' and the remote prefix filter; object names here are single
\* characters, so a non-empty prefix selects the name equal to it
HasPrefix(k, prefix) == prefix = "" \/ k = prefix

\* the names of the set S in the order of KeyOrder (ORDER BY key)
Ordered(S) == SelectSeq(KeyOrder, LAMBDA k : k \in S)

\* _list_cached_keys_for_prefix: SELECT key ... WHERE bucket=? AND key LIKE ? ORDER BY key
ListCachedKeysForPrefix(objs, b, prefix) ==
    Ordered({k \in KeyNames : objs[<<b, k>>] # None /\ HasPrefix(k, prefix)})

\* self._client.list_objects(bucket, prefix): the remote names under the prefix,
\* in lexicographic order
RemoteListing(rem, b, prefix) ==
    Ordered({k \in KeyNames : rem[<<b, k>>] # None /\ HasPrefix(k, prefix)})

\* seq[:n]
Take(seq, n) == IF n >= Len(seq) THEN seq ELSE SubSeq(seq, 1, n)

\* _rows_to_cached_objects over the rows of the given keys
RowsToCachedObjects(objs, b, keys, ttl_, now_) ==
    [i \in 1..Len(keys) |-> RowToCachedObject(b, keys[i], objs[<<b, keys[i]>>][1], ttl_, now_)]

\* a limit test that stops one result late
LimitReachedLate(limit, count) == limit # None /\ count > limit[1]

\* `limit is not None and count >= limit`
LimitReached(limit, count) == limit # None /\ count >= limit[1]

\* a loop that keeps no seen_keys: every entry of the listing is handled
RECURSIVE ListLoopUnseen(_, _, _)
ListLoopUnseen(acc, i, cx) ==
    IF i > Len(cx.listing) THEN {acc}
    ELSE
      LET key  == cx.listing[i]
          b    == cx.bucket
          row  == GetRow(acc.objs, b, key)
          hit  == [acc EXCEPT !.out = Append(@, RowToCachedObject(b, key, row[1], cx.ttl, cx.now))]
          bad  == StatRaises(cx.rem, b, key, key \in cx.failKeys)
          call == RemoteCall("stat_object", b, key, ~bad)
          stat == StatOf(b, key, cx.rem[<<b, key>>][1])
          Got(w) == [acc EXCEPT !.objs = w[1], !.size = w[2],
                                !.out = Append(@, FreshObject(b, key, stat, cx.now)),
                                !.calls = Append(@, call)]
      IN  IF /\ row # None
             /\ cx.mode # "BYPASS"
             /\ cx.mode = "DEFAULT"
             /\ ~IsRowStale(row, cx.ttl, cx.now)
          THEN IF LimitReached(cx.limit, Len(hit.out)) THEN {hit}
               ELSE ListLoopUnseen(hit, i + 1, cx)
          ELSE IF bad
          THEN ListLoopUnseen([acc EXCEPT !.calls = Append(@, call)], i + 1, cx)
          ELSE UNION {IF LimitReached(cx.limit, Len(Got(w).out)) THEN {Got(w)}
                      ELSE ListLoopUnseen(Got(w), i + 1, cx) :
                        w \in WriteObjectRow(acc.objs, acc.size, cx.cap, b, key, stat.etag,
                                             stat.size, stat.last_modified, stat.metadata,
                                             None, cx.now)}

\* The `for s3obj in self._client.list_objects(...)` loop from position i on.
\* acc: the objects table, file size, results yielded, remote calls and seen_keys
\* so far; cx: what the loop does not change.  The set of accumulators the loop
\* can end in.
RECURSIVE ListLoop(_, _, _)
ListLoop(acc, i, cx) ==
    IF i > Len(cx.listing) THEN {acc}
    ELSE
      LET key  == cx.listing[i]
          b    == cx.bucket
          seen == [acc EXCEPT !.seen = @ \cup {key}]
          row  == GetRow(acc.objs, b, key)
          hit  == [seen EXCEPT !.out = Append(@, RowToCachedObject(b, key, row[1], cx.ttl, cx.now))]
          bad  == StatRaises(cx.rem, b, key, key \in cx.failKeys)
          call == RemoteCall("stat_object", b, key, ~bad)
          stat == StatOf(b, key, cx.rem[<<b, key>>][1])
          Got(w) == [seen EXCEPT !.objs = w[1], !.size = w[2],
                                 !.out = Append(@, FreshObject(b, key, stat, cx.now)),
                                 !.calls = Append(@, call)]
      IN  IF key \in acc.seen THEN ListLoop(acc, i + 1, cx)
          ELSE IF /\ row # None
                  /\ cx.mode # "BYPASS"
                  /\ cx.mode = "DEFAULT"
                  /\ ~IsRowStale(row, cx.ttl, cx.now)
          THEN IF LimitReached(cx.limit, Len(hit.out)) THEN {hit}
               ELSE ListLoop(hit, i + 1, cx)
          ELSE IF bad
          THEN ListLoop([seen EXCEPT !.calls = Append(@, call)], i + 1, cx)
          ELSE UNION {IF LimitReached(cx.limit, Len(Got(w).out)) THEN {Got(w)}
                      ELSE ListLoop(Got(w), i + 1, cx) :
                        w \in WriteObjectRow(acc.objs, acc.size, cx.cap, b, key, stat.etag,
                                             stat.size, stat.last_modified, stat.metadata,
                                             None, cx.now)}

\* list_objects(bucket, prefix, limit=limit, cache_mode=mode), consumed to its
\* end; `listing`: what the remote listing returns; `failKeys`: the names whose
\* remote stat raises
ListObjects(objs, size, rem, cap, ttl_, now_, b, prefix, limit, mode, listing, failKeys) ==
    LET cachedKeys == ListCachedKeysForPrefix(objs, b, prefix)
        listCall   == RemoteCall("list_objects", b, prefix, TRUE)
        cx  == [bucket |-> b, cap |-> cap, ttl |-> ttl_, now |-> now_, rem |-> rem,
                limit |-> limit, mode |-> mode, listing |-> listing, failKeys |-> failKeys]
        acc == [objs |-> objs, size |-> size, out |-> <<>>, calls |-> <<listCall>>,
                seen |-> {}]
    IN  IF IsCacheOnly(mode)
        THEN {Outcome(objs, size, rem,
                      RowsToCachedObjects(objs, b,
                          IF limit # None /\ limit[1] # 0 THEN Take(cachedKeys, limit[1])
                          ELSE cachedKeys, ttl_, now_),
                      <<>>, FALSE)}
        ELSE IF limit # None /\ Len(cachedKeys) >= limit[1] /\ mode = "DEFAULT"
        THEN {Outcome(objs, size, rem,
                      RowsToCachedObjects(objs, b, Take(cachedKeys, limit[1]), ttl_, now_),
                      <<>>, FALSE)}
        ELSE {Outcome(a.objs, a.size, rem, a.out, a.calls, FALSE) : a \in ListLoop(acc, 1, cx)}

\* ------------------------------------------------------------------- state
VARIABLES
    objects,        \* table objects: [Keys -> None or <<row>>]
    fileSize,       \* os.path.getsize(self.db_path)
    remote,         \* the remote service: [Keys -> None or <<object>>]
    now,            \* _now()
    ttl,            \* self.ttl
    max_db_size_mb, \* self.max_db_size_mb
    fetchedAt,      \* history: when the etag/size/metadata of a row came from the remote
    last,           \* history: the latest call made
    buckets,        \* table buckets: the set of stored names
    remoteBuckets,  \* the buckets of the remote service
    lock,           \* self._lock (RLock): the owning thread and its hold count
    pc,             \* where each thread is in the call it makes
    local,          \* each thread's local variables: cache_mode, row, stat
    lastPut         \* history: the row inserted by the latest _write_object_row

\* the state of the threads calling the facade
threadVars == <<lock, pc, local, lastPut>>

vars == <<objects, fileSize, remote, now, ttl, max_db_size_mb, fetchedAt, last, buckets,
          remoteBuckets, threadVars>>

\* the threads that call the facade
Threads == {"t1", "t2"}

\* a thread's local variables outside a call
NoLocals == [mode |-> "", row |-> None, stat |-> None]

\* no thread is inside a call and the lock is free
ThreadsIdle ==
    /\ lock = [owner |-> None, depth |-> 0]
    /\ pc = [t \in Threads |-> "idle"]
    /\ local = [t \in Threads |-> NoLocals]
    /\ lastPut = None

\* configurations: ttl (<= 0 disables expiry) and max_db_size_mb (0 = unlimited)
TtlValues == {0, 1}

CapValues == {0, 1}

\* the metadata a remote object can carry
MetaValues == {Some(EmptyMap), Some({<<"t", "1">>})}

\* the tag sets a caller gives set_object_tags
TagValues == {EmptyMap, {<<"t", "1">>}}

NoCall == [op |-> "init", bucket |-> "", key |-> ""]

\* the state after __init__ on a new database: both tables empty; the remote
\* service has the buckets the objects live in
Init ==
    /\ objects = [kk \in Keys |-> None]
    /\ fileSize = 0
    /\ remote = [kk \in Keys |-> None]
    /\ now = 1
    /\ ttl \in TtlValues
    /\ max_db_size_mb \in CapValues
    /\ fetchedAt = [kk \in Keys |-> None]
    /\ last = NoCall
    /\ buckets = {}
    /\ remoteBuckets = BucketNames
    /\ ThreadsIdle

\* history: a row's values were fetched now if this call's stat of the key
\* returned and the row was written; a row written without a stat has none
FetchedAfter(o, kk) ==
    IF o.objs[kk] = None THEN None
    ELSE IF \E i \in 1..Len(o.calls) :
              /\ o.calls[i] = RemoteCall("stat_object", kk[1], kk[2], TRUE)
              /\ o.objs[kk][1].cached_at = Some(now)
              /\ o.objs[kk][1].etag # None
         THEN Some(now)
    ELSE IF objects[kk] = None THEN None
    ELSE fetchedAt[kk]

\* a call with outcome o becomes the latest call
Returns(op, b, k, o) ==
    /\ objects' = o.objs
    /\ fileSize' = o.size
    /\ remote' = o.rem
    /\ fetchedAt' = [kk \in Keys |-> FetchedAfter(o, kk)]
    /\ last' = [op |-> op, bucket |-> b, key |-> k]
    /\ UNCHANGED <<now, ttl, max_db_size_mb, buckets, remoteBuckets, threadVars>>

\* ----------------------------------------------------------------- actions
\* time passes
Tick ==
    /\ now < MaxTime
    /\ now' = now + 1
    /\ UNCHANGED <<objects, fileSize, remote, ttl, max_db_size_mb, fetchedAt, last, buckets,
                   remoteBuckets, threadVars>>

\* another client puts an object (a new version) on the remote service
RemotePut(kk, meta) ==
    /\ remote[kk] # None => remote[kk][1].ver < MaxVersion
    /\ remote' = [remote EXCEPT ![kk] =
                    Some([ver      |-> IF remote[kk] = None THEN 1 ELSE remote[kk][1].ver + 1,
                          metadata |-> meta,
                          tags     |-> EmptyMap])]
    /\ UNCHANGED <<objects, fileSize, now, ttl, max_db_size_mb, fetchedAt, last, buckets,
                   remoteBuckets, threadVars>>

\* another client deletes an object on the remote service
RemoteDelete(kk) ==
    /\ remote[kk] # None
    /\ remote' = [remote EXCEPT ![kk] = None]
    /\ UNCHANGED <<objects, fileSize, now, ttl, max_db_size_mb, fetchedAt, last, buckets,
                   remoteBuckets, threadVars>>

\* the handlers, called in the current state
StatNow(kk, mode, fail) ==
    StatObject(objects, fileSize, remote, max_db_size_mb, ttl, now, kk[1], kk[2], mode, fail)

TagsNow(kk, mode, failTags, failStat) ==
    GetObjectTags(objects, fileSize, remote, max_db_size_mb, ttl, now, kk[1], kk[2], mode,
                  failTags, failStat)

SetTagsNow(kk, tags, fail) ==
    SetObjectTags(objects, fileSize, remote, max_db_size_mb, now, kk[1], kk[2], tags, fail)

RemoveNow(kk, fail) ==
    RemoveObject(objects, fileSize, remote, max_db_size_mb, kk[1], kk[2], fail)

\* a listing that appends the names found only in the store
ListNowWithStored(b, prefix, limit, mode, failKeys) ==
    ListObjects(objects, fileSize, remote, max_db_size_mb, ttl, now, b, prefix, limit, mode,
                Ordered({k \in KeyNames : /\ HasPrefix(k, prefix)
                                          /\ \/ remote[<<b, k>>] # None
                                             \/ objects[<<b, k>>] # None}),
                failKeys)

ListNow(b, prefix, limit, mode, failKeys) ==
    ListObjects(objects, fileSize, remote, max_db_size_mb, ttl, now, b, prefix, limit, mode,
                RemoteListing(remote, b, prefix), failKeys)

StatObjectCall(kk, mode, fail) ==
    \E o \in StatNow(kk, mode, fail) : Returns("stat_object", kk[1], kk[2], o)

GetObjectTagsCall(kk, mode, failTags, failStat) ==
    \E o \in TagsNow(kk, mode, failTags, failStat) : Returns("get_object_tags", kk[1], kk[2], o)

SetObjectTagsCall(kk, tags, fail) ==
    \E o \in SetTagsNow(kk, tags, fail) : Returns("set_object_tags", kk[1], kk[2], o)

RemoveObjectCall(kk, fail) ==
    \E o \in RemoveNow(kk, fail) : Returns("remove_object", kk[1], kk[2], o)

ListObjectsCall(b, prefix, limit, mode, failKeys) ==
    \E o \in ListNow(b, prefix, limit, mode, failKeys) : Returns("list_objects", b, prefix, o)

\* -------------------------------------------- Spec: the facade on one object
FacadeKeys == {<<"b1", "a">>}

FacadeLimits == {None, Some(0), Some(1)}

\* <<failTags, failStat>>: no failure, the tag fetch raises (the stat is then not
\* reached), the stat that fills a new row raises
TagFailures == {<<FALSE, FALSE>>, <<TRUE, FALSE>>, <<FALSE, TRUE>>}

Next ==
    \/ Tick
    \/ \E kk \in FacadeKeys, meta \in MetaValues : RemotePut(kk, meta)
    \/ \E kk \in FacadeKeys : RemoteDelete(kk)
    \/ \E kk \in FacadeKeys, mode \in Modes, fail \in BOOLEAN : StatObjectCall(kk, mode, fail)
    \/ \E kk \in FacadeKeys, mode \in Modes, f \in TagFailures :
          GetObjectTagsCall(kk, mode, f[1], f[2])
    \/ \E kk \in FacadeKeys, tags \in TagValues, fail \in BOOLEAN :
          SetObjectTagsCall(kk, tags, fail)
    \/ \E kk \in FacadeKeys, fail \in BOOLEAN : RemoveObjectCall(kk, fail)
    \/ \E mode \in Modes, limit \in FacadeLimits :
          ListObjectsCall("b1", "", limit, mode, {})

Spec == Init /\ [][Next]_vars

\* ------------------------------------------------------- claims under Spec
\* a handler called on the outcome o of an earlier call, at time t
StatAfter(o, t, kk, mode, fail) ==
    StatObject(o.objs, o.size, o.rem, max_db_size_mb, ttl, t, kk[1], kk[2], mode, fail)

StatCallOk(kk) == RemoteCall("stat_object", kk[1], kk[2], TRUE)

\* C1: with ttl > 0, when a statObject(b,k,DEFAULT) has fetched the object by a
\* remote stat that succeeded, a second statObject(b,k,DEFAULT) made next, no
\* later than ttl after it, issues no remote call: one remote stat in total.
C1_TwoStatsOneRemoteCall ==
    \A kk \in FacadeKeys :
      \A o1 \in StatNow(kk, "DEFAULT", FALSE) :
        (ttl > 0 /\ o1.calls = <<StatCallOk(kk)>>) =>
          \A t2 \in now..MaxTime, fail2 \in BOOLEAN :
            (t2 - now <= ttl) =>
              \A o2 \in StatAfter(o1, t2, kk, "DEFAULT", fail2) :
                Len(o1.calls) + Len(o2.calls) = 1

\* C2: every statObject(b,k,BYPASS) issues one remote stat whatever the store
\* holds, and when the stat succeeds a statObject(b,k,CACHE_ONLY) made next
\* returns the etag, size and metadata the BYPASS call fetched.
C2_BypassFetchesAndStores ==
    \A kk \in FacadeKeys, fail \in BOOLEAN :
      \A o1 \in StatNow(kk, "BYPASS", fail) :
        /\ Len(o1.calls) = 1
        /\ o1.calls[1].call = "stat_object"
        /\ o1.calls[1].ok =>
             \A o2 \in StatAfter(o1, now, kk, "CACHE_ONLY", FALSE) :
               /\ o2.out[1].obj # None
               /\ o2.out[1].obj[1].etag = o1.out[1].obj[1].etag
               /\ o2.out[1].obj[1].size = o1.out[1].obj[1].size
               /\ o2.out[1].metadata = o1.out[1].metadata

\* C3: in CACHE_ONLY mode statObject, getObjectTags and listObjects issue no
\* remote call and leave the remote service alone, whatever the store holds.
C3_CacheOnlyNoRemoteCall ==
    /\ \A kk \in FacadeKeys, f1 \in BOOLEAN, f2 \in BOOLEAN :
         /\ \A o \in StatNow(kk, "CACHE_ONLY", f1) : o.calls = <<>> /\ o.rem = remote
         /\ \A o \in TagsNow(kk, "CACHE_ONLY", f1, f2) : o.calls = <<>> /\ o.rem = remote
    /\ \A limit \in FacadeLimits, failKeys \in SUBSET KeyNames :
         \A o \in ListNow("b1", "", limit, "CACHE_ONLY", failKeys) :
           o.calls = <<>> /\ o.rem = remote

\* C3 witness: a call has been made and the store holds a stale record with null
\* tags for an object the remote service has.
C3_Witness ==
    \E kk \in FacadeKeys :
      /\ last.op \in {"stat_object", "get_object_tags", "list_objects"}
      /\ objects[kk] # None
      /\ objects[kk][1].tags = None
      /\ IsRowStale(objects[kk], ttl, now)
      /\ remote[kk] # None

\* C4: statObject(b,k,CACHE_ONLY) on a key with no stored record returns the
\* sentinel (cached false, source none, no object handle), raises nothing and
\* leaves the store as it was.
C4_CacheOnlyMissSentinel ==
    \A kk \in FacadeKeys, fail \in BOOLEAN :
      objects[kk] = None =>
        \A o \in StatNow(kk, "CACHE_ONLY", fail) :
          /\ ~o.raised
          /\ Len(o.out) = 1
          /\ o.out[1].cached = FALSE
          /\ o.out[1].source = "none"
          /\ o.out[1].obj = None
          /\ o.objs = objects
          /\ o.size = fileSize

\* C4 witness: a statObject has run, the key has no stored record and the remote
\* service has the object.
C4_Witness ==
    \E kk \in FacadeKeys :
      /\ last = [op |-> "stat_object", bucket |-> kk[1], key |-> kk[2]]
      /\ objects[kk] = None
      /\ remote[kk] # None

\* C5: after removeObject(b,k) has returned, get(b,k) finds no record, whatever
\* was stored for (b,k) before.
C5_RemoveThenNoRecord ==
    \A kk \in FacadeKeys :
      \A o \in RemoveNow(kk, FALSE) :
        ~o.raised => GetRow(o.objs, kk[1], kk[2]) = None

\* C5 witness: a record is stored for the key and removeObject returns.
C5_Witness ==
    \E kk \in FacadeKeys :
      /\ objects[kk] # None
      /\ \E o \in RemoveNow(kk, FALSE) : ~o.raised

\* C6: with ttl > 0, statObject(b,k,DEFAULT) on a record of age at most ttl
\* returns it (cached, not stale, source cache) without a remote call; on a
\* record older than ttl it issues a remote stat and, when that returns, stores
\* the record again with cachedAt = now and returns stale false, source s3.
C6_FreshServedStaleRefetched ==
    \A kk \in FacadeKeys :
      (ttl > 0 /\ objects[kk] # None /\ objects[kk][1].cached_at # None) =>
        LET age == now - objects[kk][1].cached_at[1]
        IN  /\ age <= ttl =>
                 \A fail \in BOOLEAN :
                   \A o \in StatNow(kk, "DEFAULT", fail) :
                     /\ o.calls = <<>>
                     /\ o.out[1].cached
                     /\ ~o.out[1].stale
                     /\ o.out[1].source = "cache"
            /\ age > ttl =>
                 /\ \A fail \in BOOLEAN :
                      \A o \in StatNow(kk, "DEFAULT", fail) :
                        Len(o.calls) = 1 /\ o.calls[1].call = "stat_object"
                 /\ remote[kk] # None =>
                      \A o \in StatNow(kk, "DEFAULT", FALSE) :
                        /\ o.objs[kk] # None
                        /\ o.objs[kk][1].cached_at = Some(now)
                        /\ ~o.out[1].stale
                        /\ o.out[1].source = "s3"

\* C7: with ttl > 0, a result statObject(b,k,DEFAULT) serves from the store as
\* not stale carries etag, size and metadata fetched from the remote service no
\* more than ttl before the call.
C7_FreshResultFetchedWithinTtl ==
    \A kk \in FacadeKeys, fail \in BOOLEAN :
      \A o \in StatNow(kk, "DEFAULT", fail) :
        (ttl > 0 /\ ~o.raised /\ o.out[1].source = "cache" /\ ~o.out[1].stale) =>
          /\ fetchedAt[kk] # None
          /\ now - fetchedAt[kk][1] <= ttl

\* the Optional[dict] values a caller can give put
OptMappings == {None} \cup {Some(m) : m \in Mappings}

\* C9: a metadata or tags mapping written by put and read back under CACHE_ONLY
\* comes back with the same contents: null stays null, the empty mapping stays
\* the empty mapping.
C9_MappingRoundTrip ==
    \A kk \in FacadeKeys, metadata \in OptMappings, tags \in OptMappings :
      \A w \in WriteObjectRow(objects, fileSize, max_db_size_mb, kk[1], kk[2],
                              Some(1), Some(10), None, metadata, tags, now) :
        w[1][kk] # None =>
          \A o \in StatObject(w[1], w[2], remote, max_db_size_mb, ttl, now,
                              kk[1], kk[2], "CACHE_ONLY", FALSE) :
            /\ o.out[1].metadata = metadata
            /\ o.out[1].tags = tags

\* ------------------------------- SpecList: list_objects over a remote [a, b, c]
ListBucket == "b1"

ListKeys == {<<ListBucket, k>> : k \in KeyNames}

\* None, and the limit the listing claim is about
ListLimits == {None, Some(2)}

\* the remote service holds a, b and c in one bucket; the store is new
InitList ==
    /\ objects = [kk \in Keys |-> None]
    /\ fileSize = 0
    /\ remote = [kk \in Keys |->
                    IF kk \in ListKeys
                    THEN Some([ver |-> 1, metadata |-> Some({<<"t", "1">>}), tags |-> EmptyMap])
                    ELSE None]
    /\ now = 1
    /\ ttl \in TtlValues
    /\ max_db_size_mb \in CapValues
    /\ fetchedAt = [kk \in Keys |-> None]
    /\ last = NoCall
    /\ buckets = {}
    /\ remoteBuckets = BucketNames
    /\ ThreadsIdle

NextList ==
    \/ Tick
    \/ \E kk \in ListKeys, mode \in {"DEFAULT", "FORCE_REFRESH"}, fail \in BOOLEAN :
          StatObjectCall(kk, mode, fail)
    \/ \E limit \in ListLimits, mode \in Modes, failKeys \in SUBSET KeyNames :
          ListObjectsCall(ListBucket, "", limit, mode, failKeys)

SpecList == InitList /\ [][NextList]_vars

\* the keys of the results a call yielded, in the order yielded
YieldedKeys(o) == [i \in 1..Len(o.out) |-> o.out[i].key]

\* the keys stored under the bucket, in key order
StoredKeys == ListCachedKeysForPrefix(objects, ListBucket, "")

\* seq is KeyOrder with some names left out
IsOrderedSelection(seq) == seq = Ordered({seq[i] : i \in 1..Len(seq)})

\* C8 as stated: for a remote listing [a, b, c] whose remote stats succeed,
\* listObjects with limit 2 in every mode other than CACHE_ONLY yields the keys
\* [a, b], whatever the store holds.
C8_LimitTwoYieldsFirstTwo ==
    RemoteListing(remote, ListBucket, "") = KeyOrder =>
      \A mode \in Modes \ {"CACHE_ONLY"} :
        \A o \in ListNow(ListBucket, "", Some(2), mode, {}) :
          YieldedKeys(o) = <<"a", "b">>

\* C8 amended: for a remote listing [a, b, c] whose remote stats succeed,
\* listObjects with limit 2 yields [a, b] in BYPASS and FORCE_REFRESH mode
\* whatever the store holds, and in DEFAULT mode when the store holds fewer than
\* 2 keys under the prefix; in DEFAULT mode with 2 or more stored keys it yields
\* the first 2 stored keys in key order and issues no remote call.  When remote
\* stats fail, the keys yielded are still at most 2 and in the remote order.
C8_LimitTwoAmended ==
    RemoteListing(remote, ListBucket, "") = KeyOrder =>
      /\ \A mode \in {"BYPASS", "FORCE_REFRESH"} :
           \A o \in ListNow(ListBucket, "", Some(2), mode, {}) :
             YieldedKeys(o) = <<"a", "b">>
      /\ \A o \in ListNow(ListBucket, "", Some(2), "DEFAULT", {}) :
           IF Len(StoredKeys) < 2
           THEN YieldedKeys(o) = <<"a", "b">>
           ELSE YieldedKeys(o) = Take(StoredKeys, 2) /\ o.calls = <<>>
      /\ \A mode \in Modes \ {"CACHE_ONLY"}, failKeys \in SUBSET KeyNames :
           \A o \in ListNow(ListBucket, "", Some(2), mode, failKeys) :
             /\ Len(o.out) <= 2
             /\ IsOrderedSelection(YieldedKeys(o))

\* C8 witness: after a listObjects call the store holds only b and c of the
\* remote [a, b, c]; DEFAULT with limit 2 yields [b, c], BYPASS yields [a, b].
C8_Witness ==
    /\ last.op = "list_objects"
    /\ RemoteListing(remote, ListBucket, "") = KeyOrder
    /\ StoredKeys = <<"b", "c">>
    /\ \E o \in ListNow(ListBucket, "", Some(2), "DEFAULT", {}) : YieldedKeys(o) = <<"b", "c">>
    /\ \E o \in ListNow(ListBucket, "", Some(2), "BYPASS", {}) : YieldedKeys(o) = <<"a", "b">>

\* ------------------------- SpecStore: writes and eviction across two buckets
StoreKeys == {<<"b1", "a">>, <<"b1", "b">>, <<"b2", "a">>}

\* the remote service holds one object per key of StoreKeys; the store is new
InitStore ==
    /\ objects = [kk \in Keys |-> None]
    /\ fileSize = 0
    /\ remote = [kk \in Keys |->
                    IF kk \in StoreKeys
                    THEN Some([ver |-> 1, metadata |-> Some({<<"t", "1">>}), tags |-> EmptyMap])
                    ELSE None]
    /\ now = 1
    /\ ttl \in TtlValues
    /\ max_db_size_mb \in CapValues
    /\ fetchedAt = [kk \in Keys |-> None]
    /\ last = NoCall
    /\ buckets = {}
    /\ remoteBuckets = BucketNames
    /\ ThreadsIdle

NextStore ==
    \/ Tick
    \/ \E kk \in StoreKeys, mode \in {"DEFAULT", "BYPASS"} : StatObjectCall(kk, mode, FALSE)
    \/ \E kk \in StoreKeys, failTags \in BOOLEAN :
          GetObjectTagsCall(kk, "DEFAULT", failTags, FALSE)

SpecStore == InitStore /\ [][NextStore]_vars

\* the file sizes at which an eviction run configured with cap deletes rows
OverCap(cap) == {s \in FileSizes : cap > 0 /\ s > LimitBytes(cap)}

\* the rows a run that ended in table objs deleted
Evicted(objs) == Present(objects) \ Present(objs)

\* C10: an eviction run that deletes records deletes only records whose cachedAt
\* is less than or equal to the cachedAt of every record it leaves, over all
\* buckets; it changes no record it leaves, and the file is not larger after the
\* run than before it.
C10_EvictionOldestFirst ==
    \A s \in OverCap(max_db_size_mb) :
      \A r \in EnforceDbSizeLimit(objects, s, max_db_size_mb) :
        /\ \A x \in Evicted(r[1]), y \in Present(r[1]) :
             CachedAtRank(objects[x]) <= CachedAtRank(objects[y])
        /\ \A y \in Present(r[1]) : r[1][y] = objects[y]
        /\ r[2] <= s

\* C10 witness: after a write the store holds records of both buckets written at
\* different times, and an eviction run on it deletes strictly older records and
\* leaves a newer one.
C10_Witness ==
    /\ last.op = "stat_object"
    /\ \E x \in Present(objects), y \in Present(objects) : x[1] # y[1]
    /\ \E s \in OverCap(max_db_size_mb) :
         \E r \in EnforceDbSizeLimit(objects, s, max_db_size_mb) :
           /\ Evicted(r[1]) # {}
           /\ \E x \in Evicted(r[1]), y \in Present(r[1]) :
                /\ x[1] # y[1]
                /\ CachedAtRank(objects[x]) < CachedAtRank(objects[y])

\* ------------------------- SpecRead: the read path of the facade on one object
\* stat_object in every mode, get_object_tags and list_objects with and without
\* the store, and the tag updates and remote changes that vary what they find
NextRead ==
    \/ Tick
    \/ \E kk \in FacadeKeys, meta \in MetaValues : RemotePut(kk, meta)
    \/ \E kk \in FacadeKeys : RemoteDelete(kk)
    \/ \E kk \in FacadeKeys, mode \in Modes, fail \in BOOLEAN : StatObjectCall(kk, mode, fail)
    \/ \E kk \in FacadeKeys, mode \in {"DEFAULT", "BYPASS"}, f \in TagFailures :
          GetObjectTagsCall(kk, mode, f[1], f[2])
    \/ \E kk \in FacadeKeys, tags \in TagValues : SetObjectTagsCall(kk, tags, FALSE)
    \/ \E mode \in {"DEFAULT", "BYPASS"} : ListObjectsCall("b1", "", None, mode, {})

SpecRead == Init /\ [][NextRead]_vars

\* ------------------------- claims on the read path (SpecRead, Spec)
\* the modes in which stat_object and get_object_tags may go to the remote service
RemoteModes == Modes \ {"CACHE_ONLY"}

StatNowOf(kk) == StatOf(kk[1], kk[2], remote[kk][1])

C13_ForceRefreshOverwrites ==
    \A kk \in FacadeKeys, f1 \in BOOLEAN, f2 \in BOOLEAN :
      /\ \A o \in StatNow(kk, "FORCE_REFRESH", f1) :
           /\ Len(o.calls) = 1 /\ o.calls[1].call = "stat_object"
           /\ o.calls[1].ok =>
                /\ o.out[1].source = "s3"
                /\ o.objs[kk] # None
                /\ ObjFromRow(kk[1], kk[2], o.objs[kk][1]).etag = StatNowOf(kk).etag
                /\ ObjFromRow(kk[1], kk[2], o.objs[kk][1]).size = StatNowOf(kk).size
                /\ ObjFromRow(kk[1], kk[2], o.objs[kk][1]).metadata = StatNowOf(kk).metadata
      /\ \A o \in TagsNow(kk, "FORCE_REFRESH", f1, f2) :
           /\ o.calls # <<>> /\ o.calls[1].call = "get_object_tags"
           /\ o.calls[1].ok =>
                /\ o.out[1].source = "s3"
                /\ o.objs[kk] # None
                /\ TruthyText(o.objs[kk][1].tags)
                /\ JsonLoads(o.objs[kk][1].tags[1]) = remote[kk][1].tags

\* C16: after setObjectTags(b,k,tags) has returned, the store holds a record for
\* (b,k) whose tags are the given mapping, whether or not a record was stored
\* before.
C16_SetTagsStoresRecord ==
    \A kk \in FacadeKeys, tags \in TagValues :
      \A o \in SetTagsNow(kk, tags, FALSE) :
        ~o.raised =>
          /\ o.objs[kk] # None
          /\ TruthyText(o.objs[kk][1].tags)
          /\ JsonLoads(o.objs[kk][1].tags[1]) = tags

\* get_object_tags called on the outcome o of an earlier call, at time t
TagsAfter(o, t, kk, mode, failTags, failStat) ==
    GetObjectTags(o.objs, o.size, o.rem, max_db_size_mb, ttl, t, kk[1], kk[2], mode,
                  failTags, failStat)

TagsCallOk(kk) == RemoteCall("get_object_tags", kk[1], kk[2], TRUE)

\* C17: with ttl > 0, when a getObjectTags(b,k,DEFAULT) has fetched the tags
\* remotely, a second getObjectTags(b,k,DEFAULT) made next, no later than ttl
\* after it, issues no remote call and returns the same tags, for every tags
\* mapping and whether or not a record was stored before the first call.
C17_TwoTagReadsOneFetch ==
    \A kk \in FacadeKeys, failStat \in BOOLEAN :
      \A o1 \in TagsNow(kk, "DEFAULT", FALSE, failStat) :
        (ttl > 0 /\ o1.calls # <<>> /\ o1.calls[1] = TagsCallOk(kk)) =>
          \A t2 \in now..MaxTime, f1 \in BOOLEAN, f2 \in BOOLEAN :
            (t2 - now <= ttl) =>
              \A o2 \in TagsAfter(o1, t2, kk, "DEFAULT", f1, f2) :
                /\ o2.calls = <<>>
                /\ ~o2.raised
                /\ o2.out[1].tags = o1.out[1].tags

\* C18: when the remote tag fetch of getObjectTags raises and a record for the
\* key is stored, the call raises nothing and returns the stored record with
\* source cache and the stale flag of the staleness policy, whether the stored
\* tags are null, empty or non-empty.
C18_TagFailureFallsBack ==
    \A kk \in FacadeKeys, mode \in RemoteModes, f1 \in BOOLEAN, f2 \in BOOLEAN :
      \A o \in TagsNow(kk, mode, f1, f2) :
        (o.calls # <<>> /\ ~o.calls[1].ok /\ objects[kk] # None) =>
          /\ ~o.raised
          /\ Len(o.out) = 1
          /\ o.out[1].source = "cache"
          /\ o.out[1].stale = IsRowStale(objects[kk], ttl, now)

\* the remote stats in calls that returned
OkStats(calls) == {i \in 1..Len(calls) : calls[i].call = "stat_object" /\ calls[i].ok}

\* C20: for every mode and every limit >= 0, limit 0 included, listObjects
\* yields at most limit results and makes at most limit remote stats that
\* return.
C20_ListYieldsAtMostLimit ==
    \A mode \in Modes, limit \in FacadeLimits \ {None}, failKeys \in SUBSET KeyNames :
      \A o \in ListNow("b1", "", limit, mode, failKeys) :
        /\ Len(o.out) <= limit[1]
        /\ Cardinality(OkStats(o.calls)) <= limit[1]

\* ------------------------------------ copy_object, remove_objects, buckets
\* copy_object(bucket, object_name, src): the remote copy, then the destination
\* row is deleted; `src` is the <<bucket, key>> of the CopySource, `fail`: the
\* remote copy raises (as it does when the source is missing)
CopyObject(objs, size, rem, cap, b, k, src, fail) ==
    IF fail \/ rem[src] = None
    THEN {Outcome(objs, size, rem, <<>>, <<RemoteCall("copy_object", b, k, FALSE)>>, TRUE)}
    ELSE {Outcome(w[1], w[2], [rem EXCEPT ![<<b, k>>] = rem[src]], <<>>,
                  <<RemoteCall("copy_object", b, k, TRUE)>>, FALSE) :
            w \in DeleteObjectRow(objs, size, cap, b, k)}

\* remove_objects(bucket, delete_list): `names` are the object names of
\* delete_list, `errs` the names the remote service reports a DeleteError for
\* (they stay on the remote service), `fail`: the remote call itself raises.
\* out is the list of errors returned.
RemoveObjects(objs, size, rem, cap, b, names, errs, fail) ==
    IF fail
    THEN {Outcome(objs, size, rem, <<>>, <<RemoteCall("remove_objects", b, "", FALSE)>>, TRUE)}
    ELSE {Outcome(DeleteRows(objs, {<<b, n>> : n \in names}), s,
                  [kk \in Keys |-> IF kk[1] = b /\ kk[2] \in names \ errs THEN None ELSE rem[kk]],
                  Ordered(errs), <<RemoteCall("remove_objects", b, "", TRUE)>>, FALSE) :
            s \in FileAfterDelete(size, cap)}

\* what a bucket operation leaves behind: the buckets table, the remote buckets,
\* the names returned, the remote calls issued and whether it raised
BucketOutcome(bkts, rbkts, out, calls, raised) ==
    [buckets |-> bkts, remoteBuckets |-> rbkts, out |-> out, calls |-> calls,
     raised |-> raised]

\* a remote call on buckets
BucketCall(name, b, ok) == [call |-> name, bucket |-> b, ok |-> ok]

\* a list_buckets that goes to the remote service every time
ListBucketsAlwaysRemote(bkts, rbkts, fail) ==
    IF fail
    THEN BucketOutcome(bkts, rbkts, {}, <<BucketCall("list_buckets", "", FALSE)>>, TRUE)
    ELSE BucketOutcome(bkts \cup rbkts, rbkts, rbkts, <<BucketCall("list_buckets", "", TRUE)>>,
                       FALSE)

\* list_buckets(); `fail`: the remote list_buckets raises
ListBuckets(bkts, rbkts, fail) ==
    IF bkts # {} THEN BucketOutcome(bkts, rbkts, bkts, <<>>, FALSE)
    ELSE IF fail
    THEN BucketOutcome(bkts, rbkts, {}, <<BucketCall("list_buckets", "", FALSE)>>, TRUE)
    ELSE BucketOutcome(bkts \cup rbkts, rbkts, rbkts, <<BucketCall("list_buckets", "", TRUE)>>,
                       FALSE)

\* a make_bucket that stores no name
MakeBucketUnstored(bkts, rbkts, name, fail) ==
    IF fail \/ name \in rbkts
    THEN BucketOutcome(bkts, rbkts, {}, <<BucketCall("make_bucket", name, FALSE)>>, TRUE)
    ELSE BucketOutcome(bkts, rbkts \cup {name}, {},
                       <<BucketCall("make_bucket", name, TRUE)>>, FALSE)

\* make_bucket(bucket_name); the remote call raises on `fail` and when the
\* bucket exists already
MakeBucket(bkts, rbkts, name, fail) ==
    IF fail \/ name \in rbkts
    THEN BucketOutcome(bkts, rbkts, {}, <<BucketCall("make_bucket", name, FALSE)>>, TRUE)
    ELSE BucketOutcome(bkts \cup {name}, rbkts \cup {name}, {},
                       <<BucketCall("make_bucket", name, TRUE)>>, FALSE)

\* a bucket operation with outcome o becomes the latest call
ReturnsBuckets(op, name, o) ==
    /\ buckets' = o.buckets
    /\ remoteBuckets' = o.remoteBuckets
    /\ last' = [op |-> op, bucket |-> name, key |-> ""]
    /\ UNCHANGED <<objects, fileSize, remote, now, ttl, max_db_size_mb, fetchedAt, threadVars>>

CopyNow(kk, src, fail) ==
    CopyObject(objects, fileSize, remote, max_db_size_mb, kk[1], kk[2], src, fail)

RemoveObjectsNow(b, names, errs, fail) ==
    RemoveObjects(objects, fileSize, remote, max_db_size_mb, b, names, errs, fail)

ListBucketsNow(fail) == ListBuckets(buckets, remoteBuckets, fail)

MakeBucketNow(name, fail) == MakeBucket(buckets, remoteBuckets, name, fail)

CopyObjectCall(kk, src, fail) ==
    \E o \in CopyNow(kk, src, fail) : Returns("copy_object", kk[1], kk[2], o)

RemoveObjectsCall(b, names, errs, fail) ==
    \E o \in RemoveObjectsNow(b, names, errs, fail) : Returns("remove_objects", b, "", o)

ListBucketsCall(fail) == ReturnsBuckets("list_buckets", "", ListBucketsNow(fail))

MakeBucketCall(name, fail) == ReturnsBuckets("make_bucket", name, MakeBucketNow(name, fail))

\* ------------- SpecBuckets: mutations and bucket operations on one bucket's keys
MutationKeys == {<<"b1", "a">>, <<"b1", "b">>}

MutationNames == {kk[2] : kk \in MutationKeys}

\* new database; the remote service has any of the buckets and no object yet
InitBuckets ==
    /\ objects = [kk \in Keys |-> None]
    /\ fileSize = 0
    /\ remote = [kk \in Keys |-> None]
    /\ now = 1
    /\ ttl = 1
    /\ max_db_size_mb \in CapValues
    /\ fetchedAt = [kk \in Keys |-> None]
    /\ last = NoCall
    /\ buckets = {}
    /\ remoteBuckets \in SUBSET BucketNames
    /\ ThreadsIdle

NextBuckets ==
    \/ \E kk \in MutationKeys :
          /\ kk[1] \in remoteBuckets
          /\ remote[kk] = None
          /\ RemotePut(kk, Some({<<"t", "1">>}))
    \/ \E kk \in MutationKeys : StatObjectCall(kk, "DEFAULT", FALSE)
    \/ \E kk \in MutationKeys, fail \in BOOLEAN : RemoveObjectCall(kk, fail)
    \/ \E names \in SUBSET MutationNames, errs \in SUBSET MutationNames, fail \in BOOLEAN :
          errs \subseteq names /\ RemoveObjectsCall("b1", names, errs, fail)
    \/ \E kk \in MutationKeys, src \in MutationKeys, fail \in BOOLEAN :
          CopyObjectCall(kk, src, fail)
    \/ \E kk \in MutationKeys, tags \in TagValues, fail \in BOOLEAN :
          SetObjectTagsCall(kk, tags, fail)
    \/ \E name \in BucketNames, fail \in BOOLEAN : MakeBucketCall(name, fail)
    \/ \E fail \in BOOLEAN : ListBucketsCall(fail)

SpecBuckets == InitBuckets /\ [][NextBuckets]_vars

\* ------------------------------------------------ claims under SpecBuckets
\* the outcome o of a mutation of the objects table, called in the current
\* state, touched the store only after its remote call returned: its one
\* remote call is the mutation `name`, and when that raised the call raised and
\* both tables' object records and the file are as before
RemoteFirst(o, name) ==
    /\ Len(o.calls) = 1
    /\ o.calls[1].call = name
    /\ o.raised = ~o.calls[1].ok
    /\ o.raised => o.objs = objects /\ o.size = fileSize /\ o.rem = remote

\* C14: removeObject, copyObject, setObjectTags and makeBucket issue the remote
\* mutation before any store change; when the remote call raises, the call
\* raises and the object records and the bucket names are as before the call.
C14_RemoteMutationFirst ==
    /\ \A kk \in MutationKeys, fail \in BOOLEAN :
         /\ \A o \in RemoveNow(kk, fail) : RemoteFirst(o, "remove_object")
         /\ \A tags \in TagValues :
              \A o \in SetTagsNow(kk, tags, fail) : RemoteFirst(o, "set_object_tags")
         /\ \A src \in MutationKeys :
              \A o \in CopyNow(kk, src, fail) : RemoteFirst(o, "copy_object")
    /\ \A name \in BucketNames, fail \in BOOLEAN :
         LET o == MakeBucketNow(name, fail)
         IN  /\ Len(o.calls) = 1
             /\ o.calls[1].call = "make_bucket"
             /\ o.raised = ~o.calls[1].ok
             /\ o.raised => o.buckets = buckets /\ o.remoteBuckets = remoteBuckets
             /\ fail => o.raised

\* C14 witness: a copyObject onto a key has raised (its record is still stored)
\* while the buckets table holds names, and a failing removeObject of the key
\* raises too.
C14_Witness ==
    \E kk \in MutationKeys :
      /\ last = [op |-> "copy_object", bucket |-> kk[1], key |-> kk[2]]
      /\ objects[kk] # None
      /\ buckets # {}
      /\ \E o \in RemoveNow(kk, TRUE) : o.raised

\* C15: in removeObjects(bucket, keys) a key the remote service reports an error
\* for keeps its stored record.
C15_RemoveObjectsKeepsFailedKeys ==
    \A names \in SUBSET MutationNames, errs \in SUBSET MutationNames :
      errs \subseteq names =>
        \A o \in RemoveObjectsNow("b1", names, errs, FALSE) :
          \A n \in errs : o.objs[<<"b1", n>>] = objects[<<"b1", n>>]

\* C19: listBuckets returns the stored names without a remote call when the
\* buckets table is not empty; when it is empty it issues one remote
\* list_buckets, stores every name returned and returns them, and if a name was
\* returned the listBuckets made next issues no remote call.
C19_ListBucketsCacheThenFill ==
    \A fail \in BOOLEAN :
      LET o == ListBucketsNow(fail)
      IN  IF buckets # {}
          THEN /\ o.calls = <<>>
               /\ ~o.raised
               /\ o.out = buckets
               /\ o.buckets = buckets
          ELSE /\ Len(o.calls) = 1
               /\ o.calls[1].call = "list_buckets"
               /\ ~fail =>
                    /\ ~o.raised
                    /\ o.out = remoteBuckets
                    /\ o.buckets = remoteBuckets
                    /\ remoteBuckets # {} =>
                         \A f2 \in BOOLEAN :
                           LET o2 == ListBuckets(o.buckets, o.remoteBuckets, f2)
                           IN  o2.calls = <<>> /\ o2.out = remoteBuckets

\* C19 witness: a listBuckets has filled the buckets table from the remote
\* service.
C19_Witness ==
    /\ last.op = "list_buckets"
    /\ buckets # {}
    /\ buckets = remoteBuckets

\* ------------------------------------------- claims on list_objects (SpecList)
\* list_objects called on the outcome o of an earlier call, at time t
ListAfter(o, t, b, prefix, limit, mode, failKeys) ==
    ListObjects(o.objs, o.size, o.rem, max_db_size_mb, ttl, t, b, prefix, limit, mode,
                RemoteListing(o.rem, b, prefix), failKeys)

\* the limits and prefixes the listing claims range over
LimitRange == {Some(n) : n \in 0..Len(KeyOrder)}

ListPrefixes == {"", "b"}

\* C21: listObjects in DEFAULT mode with a limit, when the store holds at least
\* limit keys under the prefix, yields exactly the first limit stored keys in key
\* order with source=cache, issues no remote call and leaves the store as it
\* is, stale records included; and a limited DEFAULT listing that yielded limit
\* results, repeated at any later time, issues no remote call.
C21_DefaultLimitServedFromStore ==
    \A limit \in LimitRange, prefix \in ListPrefixes :
      LET stored == ListCachedKeysForPrefix(objects, ListBucket, prefix)
      IN  /\ Len(stored) >= limit[1] =>
                \A failKeys \in SUBSET KeyNames :
                  \A o \in ListNow(ListBucket, prefix, limit, "DEFAULT", failKeys) :
                    /\ YieldedKeys(o) = Take(stored, limit[1])
                    /\ \A i \in 1..Len(o.out) : o.out[i].source = "cache"
                    /\ o.calls = <<>>
                    /\ o.objs = objects
          /\ \A o \in ListNow(ListBucket, prefix, limit, "DEFAULT", {}) :
                Len(o.out) = limit[1] =>
                  \A t \in now..MaxTime :
                    \A p \in ListAfter(o, t, ListBucket, prefix, limit, "DEFAULT", {}) :
                      p.calls = <<>>

\* the listings of a backend that repeats results across pages: one name listed
\* twice in a row, or the whole listing sent twice
RepeatingListings(rem, b, prefix) ==
    LET base == RemoteListing(rem, b, prefix)
    IN  {base \o base} \cup
        {SubSeq(base, 1, i) \o SubSeq(base, i, Len(base)) : i \in 1..Len(base)}

\* list_objects over a remote listing that repeats names
ListObjectsRepeatingCall(b, prefix, limit, mode, failKeys) ==
    \E listing \in RepeatingListings(remote, b, prefix) :
      \E o \in ListObjects(objects, fileSize, remote, max_db_size_mb, ttl, now, b, prefix,
                           limit, mode, listing, failKeys) :
        Returns("list_objects", b, prefix, o)

\* ---------------- SpecMerge: list_objects while the remote listing changes
MergeKeys == {<<ListBucket, "a">>, <<ListBucket, "b">>}

MergeLimits == {None, Some(1)}

\* the remote service holds a and b in one bucket; the store is new
InitMerge ==
    /\ objects = [kk \in Keys |-> None]
    /\ fileSize = 0
    /\ remote = [kk \in Keys |->
                    IF kk \in MergeKeys
                    THEN Some([ver |-> 1, metadata |-> Some({<<"t", "1">>}), tags |-> EmptyMap])
                    ELSE None]
    /\ now = 1
    /\ ttl \in TtlValues
    /\ max_db_size_mb \in CapValues
    /\ fetchedAt = [kk \in Keys |-> None]
    /\ last = NoCall
    /\ buckets = {}
    /\ remoteBuckets = BucketNames
    /\ ThreadsIdle

\* other clients delete objects and put them back; this client lists
NextMerge ==
    \/ Tick
    \/ \E kk \in MergeKeys : RemoteDelete(kk)
    \/ \E kk \in MergeKeys : remote[kk] = None /\ RemotePut(kk, Some({<<"t", "1">>}))
    \/ \E limit \in MergeLimits, mode \in Modes, failKeys \in {{}, {"a"}} :
          ListObjectsCall(ListBucket, "", limit, mode, failKeys)
    \/ \E limit \in MergeLimits, mode \in RemoteModes, failKeys \in {{}, {"a"}} :
          ListObjectsRepeatingCall(ListBucket, "", limit, mode, failKeys)

SpecMerge == InitMerge /\ [][NextMerge]_vars

\* the names the remote service holds under the bucket
RemoteNames == {k \in KeyNames : remote[<<ListBucket, k>>] # None}

\* the set of keys a call yielded
YieldedSet(o) == {o.out[i].key : i \in 1..Len(o.out)}

\* the DEFAULT fast path is taken: a limit is given and the store holds at least
\* limit keys under the prefix
ServedFromStore(mode, limit, prefix) ==
    /\ mode = "DEFAULT"
    /\ limit # None
    /\ Len(ListCachedKeysForPrefix(objects, ListBucket, prefix)) >= limit[1]

\* C22 as stated: in every mode other than CACHE_ONLY, listObjects never yields
\* a key that is absent from the remote listing for the bucket and prefix.
C22_NeverYieldsKeyAbsentFromRemote ==
    \A mode \in RemoteModes, limit \in LimitRange \cup {None}, failKeys \in SUBSET KeyNames :
      \A o \in ListNow(ListBucket, "", limit, mode, failKeys) :
        YieldedSet(o) \subseteq RemoteNames

\* C22 amended: when listObjects streams the remote listing (BYPASS,
\* FORCE_REFRESH, and DEFAULT with no limit or with fewer than limit stored keys)
\* it yields only keys of the remote listing, in the remote order; in DEFAULT
\* mode with a limit and at least limit stored keys it yields the first limit
\* stored keys without consulting the remote listing, whether or not the remote
\* service still holds them.
C22_StreamingYieldsOnlyRemoteKeys ==
    \A mode \in RemoteModes, limit \in LimitRange \cup {None}, failKeys \in SUBSET KeyNames :
      \A o \in ListNow(ListBucket, "", limit, mode, failKeys) :
        IF ServedFromStore(mode, limit, "")
        THEN /\ o.calls = <<>>
             /\ Len(o.out) = limit[1]
             /\ YieldedKeys(o) = SubSeq(StoredKeys, 1, limit[1])
        ELSE /\ o.calls # <<>> /\ o.calls[1].call = "list_objects"
             /\ YieldedSet(o) \subseteq RemoteNames
             /\ IsOrderedSelection(YieldedKeys(o))

\* C22 witness: after a listObjects call the store holds a record for a key the
\* remote service no longer has and the remote service holds another key;
\* DEFAULT with limit 1 yields the stored key, DEFAULT without limit and BYPASS
\* yield only the remote key.
C22_Witness ==
    /\ last.op = "list_objects"
    /\ objects[<<ListBucket, "a">>] # None
    /\ RemoteNames = {"b"}
    /\ \E o \in ListNow(ListBucket, "", Some(1), "DEFAULT", {}) : YieldedKeys(o) = <<"a">>
    /\ \E o \in ListNow(ListBucket, "", None, "DEFAULT", {}) : YieldedKeys(o) = <<"b">>
    /\ \E o \in ListNow(ListBucket, "", Some(1), "BYPASS", {}) : YieldedKeys(o) = <<"b">>

\* ------------------------- SpecThreads: stat_object called from two threads
\* Each thread runs stat_object statement by statement: _get_row under the lock,
\* the remote stat with no lock held, _write_object_row under the lock, with
\* _enforce_db_size_limit taking the lock a second time.
ThreadKey == <<"b1", "a">>

ThreadModes == {"DEFAULT", "BYPASS"}

\* a lock that is handed to every thread that asks
LockFreeAlways(t) == TRUE

\* `with self._lock` can be entered by t: the RLock is free or t holds it
LockFree(t) == lock.owner = None \/ lock.owner = Some(t)

\* the RLock after t entered `with self._lock`
Acquired(t) == [owner |-> Some(t), depth |-> lock.depth + 1]

\* the RLock after its holder left `with self._lock`
Released ==
    IF lock.depth <= 1 THEN [owner |-> None, depth |-> 0] ELSE [lock EXCEPT !.depth = @ - 1]

\* stat_object returns or raises in thread t
ThreadReturns(t) ==
    /\ pc' = [pc EXCEPT ![t] = "idle"]
    /\ local' = [local EXCEPT ![t] = NoLocals]
    /\ last' = [op |-> "stat_object", bucket |-> ThreadKey[1], key |-> ThreadKey[2]]

\* thread t calls stat_object(bucket, key, mode)
CallStatObject(t, mode) ==
    /\ pc[t] = "idle"
    /\ pc' = [pc EXCEPT ![t] = "get_row"]
    /\ local' = [local EXCEPT ![t].mode = mode]
    /\ UNCHANGED <<objects, fileSize, remote, now, ttl, max_db_size_mb, fetchedAt, last,
                   buckets, remoteBuckets, lock, lastPut>>

\* _get_row: `with self._lock:` entered
GetRowEnter(t) ==
    /\ pc[t] = "get_row"
    /\ LockFree(t)
    /\ lock' = Acquired(t)
    /\ pc' = [pc EXCEPT ![t] = "get_row_locked"]
    /\ UNCHANGED <<objects, fileSize, remote, now, ttl, max_db_size_mb, fetchedAt, last,
                   buckets, remoteBuckets, local, lastPut>>

\* _get_row: the SELECT, the lock released; then the mode and staleness tests of
\* stat_object, which return the cached row or go on to the remote stat
GetRowExit(t) ==
    /\ pc[t] = "get_row_locked"
    /\ lock' = Released
    /\ LET row == GetRow(objects, ThreadKey[1], ThreadKey[2])
           hit == /\ row # None
                  /\ local[t].mode # "BYPASS"
                  /\ local[t].mode = "DEFAULT"
                  /\ ~IsRowStale(row, ttl, now)
       IN  IF hit
           THEN ThreadReturns(t)
           ELSE /\ pc' = [pc EXCEPT ![t] = "stat"]
                /\ local' = [local EXCEPT ![t].row = row]
                /\ UNCHANGED last
    /\ UNCHANGED <<objects, fileSize, remote, now, ttl, max_db_size_mb, fetchedAt,
                   buckets, remoteBuckets, lastPut>>

\* self._client.stat_object, issued when the thread reached "stat", returns or
\* raises; on a raise stat_object returns the row it read or raises itself
StatReturns(t, fail) ==
    /\ pc[t] = "stat"
    /\ IF StatRaises(remote, ThreadKey[1], ThreadKey[2], fail)
       THEN ThreadReturns(t)
       ELSE /\ pc' = [pc EXCEPT ![t] = "write_row"]
            /\ local' = [local EXCEPT ![t].stat =
                            Some(StatOf(ThreadKey[1], ThreadKey[2], remote[ThreadKey][1]))]
            /\ UNCHANGED last
    /\ UNCHANGED <<objects, fileSize, remote, now, ttl, max_db_size_mb, fetchedAt,
                   buckets, remoteBuckets, lock, lastPut>>

\* _write_object_row: `with self._lock, self._conn:` entered
WriteRowEnter(t) ==
    /\ pc[t] = "write_row"
    /\ LockFree(t)
    /\ lock' = Acquired(t)
    /\ pc' = [pc EXCEPT ![t] = "write_row_locked"]
    /\ UNCHANGED <<objects, fileSize, remote, now, ttl, max_db_size_mb, fetchedAt, last,
                   buckets, remoteBuckets, local, lastPut>>

\* _write_object_row: INSERT OR REPLACE of the whole row and commit; then the
\* size test that decides whether _enforce_db_size_limit has rows to delete
InsertRow(t) ==
    /\ pc[t] = "write_row_locked"
    /\ LET stat == local[t].stat[1]
           row  == NewRow(stat.etag, stat.size, stat.last_modified, stat.metadata, None, now)
       IN  /\ objects' = [objects EXCEPT ![ThreadKey] = Some(row)]
           /\ lastPut' = Some(row)
    /\ fileSize' \in FileAfterWrite(fileSize, max_db_size_mb)
    /\ pc' = [pc EXCEPT ![t] =
                IF /\ max_db_size_mb # 0 /\ max_db_size_mb > 0
                   /\ fileSize' > LimitBytes(max_db_size_mb)
                THEN "enforce" ELSE "write_row_exit"]
    /\ UNCHANGED <<remote, now, ttl, max_db_size_mb, fetchedAt, last, buckets, remoteBuckets,
                   lock, local>>

\* _enforce_db_size_limit: `with self._lock, self._conn:` entered a second time
EnforceEnter(t) ==
    /\ pc[t] = "enforce"
    /\ LockFree(t)
    /\ lock' = Acquired(t)
    /\ pc' = [pc EXCEPT ![t] = "enforce_locked"]
    /\ UNCHANGED <<objects, fileSize, remote, now, ttl, max_db_size_mb, fetchedAt, last,
                   buckets, remoteBuckets, local, lastPut>>

\* _enforce_db_size_limit: the delete loop, and the inner `with` left
EnforceExit(t) ==
    /\ pc[t] = "enforce_locked"
    /\ \E w \in EvictLoop(objects, fileSize, max_db_size_mb) :
          objects' = w[1] /\ fileSize' = w[2]
    /\ lock' = Released
    /\ pc' = [pc EXCEPT ![t] = "write_row_exit"]
    /\ UNCHANGED <<remote, now, ttl, max_db_size_mb, fetchedAt, last, buckets, remoteBuckets,
                   local, lastPut>>

\* _write_object_row: the outer `with` left; stat_object returns the fetched stat
WriteRowExit(t) ==
    /\ pc[t] = "write_row_exit"
    /\ lock' = Released
    /\ ThreadReturns(t)
    /\ UNCHANGED <<objects, fileSize, remote, now, ttl, max_db_size_mb, fetchedAt,
                   buckets, remoteBuckets, lastPut>>

\* the remote service holds the object; the store is new; no thread has called
InitThreads ==
    /\ objects = [kk \in Keys |-> None]
    /\ fileSize = 0
    /\ remote = [kk \in Keys |->
                    IF kk = ThreadKey
                    THEN Some([ver |-> 1, metadata |-> Some({<<"t", "1">>}), tags |-> EmptyMap])
                    ELSE None]
    /\ now = 1
    /\ ttl \in TtlValues
    /\ max_db_size_mb \in CapValues
    /\ fetchedAt = [kk \in Keys |-> None]
    /\ last = NoCall
    /\ buckets = {}
    /\ remoteBuckets = BucketNames
    /\ ThreadsIdle

NextThreads ==
    \/ Tick
    \/ RemotePut(ThreadKey, Some({<<"t", "1">>}))
    \/ \E t \in Threads, mode \in ThreadModes : CallStatObject(t, mode)
    \/ \E t \in Threads : GetRowEnter(t)
    \/ \E t \in Threads : GetRowExit(t)
    \/ \E t \in Threads, fail \in BOOLEAN : StatReturns(t, fail)
    \/ \E t \in Threads : WriteRowEnter(t)
    \/ \E t \in Threads : InsertRow(t)
    \/ \E t \in Threads : EnforceEnter(t)
    \/ \E t \in Threads : EnforceExit(t)
    \/ \E t \in Threads : WriteRowExit(t)

SpecThreads == InitThreads /\ [][NextThreads]_vars

\* thread t is inside a `with self._lock` block, reading or writing the store
InStore(t) ==
    pc[t] \in {"get_row_locked", "write_row_locked", "enforce", "enforce_locked",
               "write_row_exit", "delete_row_locked"}

\* thread t has issued a remote call that has not returned
RemoteOutstanding(t) == pc[t] = "stat"

\* C23: with several threads calling the facade, at most one thread is inside a
\* store read or write at any time, that thread is the one holding the lock, and
\* a thread whose remote call is outstanding does not hold the lock.
C23_StoreExclusiveRemoteUnlocked ==
    /\ \A t \in Threads, u \in Threads : InStore(t) /\ InStore(u) => t = u
    /\ \A t \in Threads : InStore(t) => lock.owner = Some(t) /\ lock.depth >= 1
    /\ \A t \in Threads : RemoteOutstanding(t) => lock.owner # Some(t)
    /\ (\A t \in Threads : ~InStore(t)) => lock.owner = None

\* C23 witness: after a row has been written, the remote calls of both threads
\* are outstanding at the same time.
C23_Witness ==
    /\ lastPut # None
    /\ \A t \in Threads : RemoteOutstanding(t)

\* C24: under concurrent _write_object_row calls for one key, the stored row is at
\* every moment the complete row of one single call, the one that held the lock
\* last, and once every thread has returned the store holds that row.
C24_PutsAtomicLastWins ==
    /\ objects[ThreadKey] # None => objects[ThreadKey] = lastPut
    /\ (lastPut # None /\ \A t \in Threads : pc[t] = "idle") => objects[ThreadKey] = lastPut

\* -------------------------------------------- failures of the persistent store
\* The handlers when the store raises (sqlite3.Error) at the write that follows
\* a remote fetch; a call that reaches no write behaves as without the failure.

\* stat_object: _write_object_row is called outside the try block, so the error
\* leaves stat_object
StatObjectWriteFails(objs, size, rem, cap, ttl_, now_, b, k, mode) ==
    LET row == GetRow(objs, b, k)
        hit == row # None /\ mode # "BYPASS" /\ mode = "DEFAULT" /\ ~IsRowStale(row, ttl_, now_)
    IN  IF IsCacheOnly(mode) \/ hit \/ StatRaises(rem, b, k, FALSE)
        THEN StatObject(objs, size, rem, cap, ttl_, now_, b, k, mode, FALSE)
        ELSE {Outcome(objs, size, rem, <<>>, <<RemoteCall("stat_object", b, k, TRUE)>>, TRUE)}

\* get_object_tags: the writes are inside `try: ... except Exception:`; with a
\* row read before, the handler returns that row; with none, the inner handler
\* retries the write, which raises again, and the outer one re-raises
GetObjectTagsWriteFails(objs, size, rem, cap, ttl_, now_, b, k, mode) ==
    LET row  == GetRow(objs, b, k)
        tags == IF TruthyText(row[1].tags) THEN Some(JsonLoads(row[1].tags[1])) ELSE None
        hit  == /\ row # None /\ tags # None
                /\ mode # "BYPASS" /\ mode = "DEFAULT" /\ ~IsRowStale(row, ttl_, now_)
        tagCall  == RemoteCall("get_object_tags", b, k, TRUE)
        statCall == RemoteCall("stat_object", b, k, TRUE)
    IN  IF IsCacheOnly(mode) \/ hit \/ rem[<<b, k>>] = None
        THEN GetObjectTags(objs, size, rem, cap, ttl_, now_, b, k, mode, FALSE, FALSE)
        ELSE IF row # None
        THEN {Outcome(objs, size, rem,
                      <<TagsObjectFromRow(b, k, row[1], TruthyDict(tags),
                                          IF TruthyDict(tags) THEN "cache" ELSE "none",
                                          ttl_, now_)>>,
                      <<tagCall>>, FALSE)}
        ELSE {Outcome(objs, size, rem, <<>>, <<tagCall, statCall>>, TRUE)}

\* the loop of list_objects when _write_object_row raises for the names in
\* cx.failWrites: the write is inside `try: ... except Exception: continue`
RECURSIVE ListLoopWriteFails(_, _, _)
ListLoopWriteFails(acc, i, cx) ==
    IF i > Len(cx.listing) THEN {acc}
    ELSE
      LET key  == cx.listing[i]
          b    == cx.bucket
          seen == [acc EXCEPT !.seen = @ \cup {key}]
          row  == GetRow(acc.objs, b, key)
          hit  == [seen EXCEPT !.out = Append(@, RowToCachedObject(b, key, row[1], cx.ttl, cx.now))]
          bad  == StatRaises(cx.rem, b, key, FALSE)
          call == RemoteCall("stat_object", b, key, ~bad)
          stat == StatOf(b, key, cx.rem[<<b, key>>][1])
          Got(w) == [seen EXCEPT !.objs = w[1], !.size = w[2],
                                 !.out = Append(@, FreshObject(b, key, stat, cx.now)),
                                 !.calls = Append(@, call)]
      IN  IF key \in acc.seen THEN ListLoopWriteFails(acc, i + 1, cx)
          ELSE IF /\ row # None
                  /\ cx.mode # "BYPASS"
                  /\ cx.mode = "DEFAULT"
                  /\ ~IsRowStale(row, cx.ttl, cx.now)
          THEN IF LimitReached(cx.limit, Len(hit.out)) THEN {hit}
               ELSE ListLoopWriteFails(hit, i + 1, cx)
          ELSE IF bad \/ key \in cx.failWrites
          THEN ListLoopWriteFails([seen EXCEPT !.calls = Append(@, call)], i + 1, cx)
          ELSE UNION {IF LimitReached(cx.limit, Len(Got(w).out)) THEN {Got(w)}
                      ELSE ListLoopWriteFails(Got(w), i + 1, cx) :
                        w \in WriteObjectRow(acc.objs, acc.size, cx.cap, b, key, stat.etag,
                                             stat.size, stat.last_modified, stat.metadata,
                                             None, cx.now)}

\* list_objects streaming the remote listing, _write_object_row raising for the
\* names in failWrites
ListObjectsWriteFails(objs, size, rem, cap, ttl_, now_, b, prefix, limit, mode, failWrites) ==
    LET cachedKeys == ListCachedKeysForPrefix(objs, b, prefix)
        cx  == [bucket |-> b, cap |-> cap, ttl |-> ttl_, now |-> now_, rem |-> rem,
                limit |-> limit, mode |-> mode, listing |-> RemoteListing(rem, b, prefix),
                failWrites |-> failWrites]
        acc == [objs |-> objs, size |-> size, out |-> <<>>,
                calls |-> <<RemoteCall("list_objects", b, prefix, TRUE)>>, seen |-> {}]
    IN  IF \/ IsCacheOnly(mode)
           \/ limit # None /\ Len(cachedKeys) >= limit[1] /\ mode = "DEFAULT"
        THEN ListObjects(objs, size, rem, cap, ttl_, now_, b, prefix, limit, mode,
                         RemoteListing(rem, b, prefix), {})
        ELSE {Outcome(a.objs, a.size, rem, a.out, a.calls, FALSE) :
                a \in ListLoopWriteFails(acc, 1, cx)}

\* the call fetched from the remote service, so it went on to write the store
FetchedOk(o, name) == \E i \in 1..Len(o.calls) : o.calls[i].call = name /\ o.calls[i].ok

\* C25: a store write that raises during a facade operation reaches the caller
\* as an error: whenever statObject, getObjectTags or listObjects has fetched
\* from the remote service and the write of the fetched value raises, the call
\* raises; it does not return a cached value and does not skip the key.
C25_StoreFailureSurfaces ==
    \A kk \in FacadeKeys, mode \in RemoteModes :
      /\ \A o \in StatObjectWriteFails(objects, fileSize, remote, max_db_size_mb, ttl, now,
                                       kk[1], kk[2], mode) :
           FetchedOk(o, "stat_object") => o.raised /\ o.out = <<>>
      /\ \A o \in GetObjectTagsWriteFails(objects, fileSize, remote, max_db_size_mb, ttl, now,
                                          kk[1], kk[2], mode) :
           FetchedOk(o, "get_object_tags") => o.raised /\ o.out = <<>>
      /\ \A limit \in FacadeLimits :
           \A o \in ListObjectsWriteFails(objects, fileSize, remote, max_db_size_mb, ttl, now,
                                          kk[1], "", limit, mode, {kk[2]}) :
             FetchedOk(o, "stat_object") => o.raised

\* ------------------------------------- SpecStale: _is_row_stale on drawn inputs
StaleKey == <<"b1", "a">>

\* self.ttl: negative, zero and positive
StaleTtls == -1..2

\* row["cached_at"]: NULL, or a clock value (0.0 and values ahead of the clock
\* included)
CachedAtValues == {None} \cup {Some(t) : t \in 0..MaxTime}

\* a store holding one row with the drawn cached_at; a drawn ttl
InitStale ==
    /\ \E c \in CachedAtValues :
          objects = [kk \in Keys |->
                        IF kk = StaleKey
                        THEN Some([NewRow(Some(1), Some(10), None, None, None, 1)
                                      EXCEPT !.cached_at = c])
                        ELSE None]
    /\ fileSize = 0
    /\ remote = [kk \in Keys |-> None]
    /\ now = 1
    /\ ttl \in StaleTtls
    /\ max_db_size_mb = 0
    /\ fetchedAt = [kk \in Keys |-> None]
    /\ last = NoCall
    /\ buckets = {}
    /\ remoteBuckets = BucketNames
    /\ ThreadsIdle

\* self._is_row_stale(row) on the stored row; the call, the row it was given,
\* the clock and the result become the latest call
IsRowStaleCall(kk) ==
    /\ last' = [op |-> "_is_row_stale", bucket |-> kk[1], key |-> kk[2],
                row |-> GetRow(objects, kk[1], kk[2]), at |-> now,
                result |-> IsRowStale(GetRow(objects, kk[1], kk[2]), ttl, now)]
    /\ UNCHANGED <<objects, fileSize, remote, now, ttl, max_db_size_mb, fetchedAt, buckets,
                   remoteBuckets, threadVars>>

NextStale ==
    \/ Tick
    \/ IsRowStaleCall(StaleKey)

SpecStale == InitStale /\ [][NextStale]_vars

\* C26: isStale(record, ttl) is false whenever ttl <= 0, also for a record whose
\* cachedAt is null; otherwise true when cachedAt is null; otherwise true exactly
\* when now - cachedAt > ttl, so an age equal to ttl is not stale; and the store
\* holds after the call the row it held before, with the file untouched.
C26_IsStaleRule ==
    last.op = "_is_row_stale" =>
      LET cachedAt == last.row[1].cached_at
      IN  /\ ttl <= 0 => last.result = FALSE
          /\ ttl > 0 /\ cachedAt = None => last.result = TRUE
          /\ ttl > 0 /\ cachedAt # None => (last.result <=> (last.at - cachedAt[1] > ttl))
          /\ objects[StaleKey] = last.row
          /\ fileSize = 0

\* C26 witness: _is_row_stale was called with a positive ttl on a row whose age
\* equals the ttl, and answered not stale.
C26_Witness ==
    /\ last.op = "_is_row_stale"
    /\ ttl > 0
    /\ last.row[1].cached_at # None
    /\ last.at - last.row[1].cached_at[1] = ttl
    /\ last.result = FALSE

\* ------------------------------- claims on the streaming path of list_objects
\* the remote stat of key k, returned
StatOk(b, k) == RemoteCall("stat_object", b, k, TRUE)

\* the calls of an outcome, as a set
CallSet(o) == {o.calls[i] : i \in 1..Len(o.calls)}

\* the row of key k in the store before the call is fresh
FreshBefore(b, k) ==
    objects[<<b, k>>] # None /\ ~IsRowStale(objects[<<b, k>>], ttl, now)

\* the store of outcome o holds for key k the values the remote stat returned,
\* written at the time of the call
StoredFetched(o, b, k) ==
    LET row  == o.objs[<<b, k>>]
        stat == StatOf(b, k, remote[<<b, k>>][1])
    IN  /\ row # None
        /\ row[1].etag = stat.etag
        /\ row[1].size = stat.size
        /\ row[1].cached_at = Some(now)

\* C27: when listObjects streams the remote listing, a key whose stored record is
\* fresh is under DEFAULT yielded from the store with source=cache and without a
\* remote stat; under BYPASS or FORCE_REFRESH, or under DEFAULT with a stale or
\* absent record, a yielded key was fetched by a remote stat and by no remote tag
\* fetch, is yielded with source=remote and its fetched values are in the store.
C27_StreamingServesFreshFetchesRest ==
    \A mode \in RemoteModes, limit \in ListLimits \cup {Some(1), Some(3)} :
      ~ServedFromStore(mode, limit, "") =>
        \A o \in ListNow(ListBucket, "", limit, mode, {}) :
          /\ \A c \in CallSet(o) : c.call # "get_object_tags"
          /\ \A i \in 1..Len(o.out) :
               LET k == o.out[i].key
               IN  IF mode = "DEFAULT" /\ FreshBefore(ListBucket, k)
                   THEN /\ o.out[i].source = "cache"
                        /\ o.out[i].obj =
                              Some(ObjFromRow(ListBucket, k, objects[<<ListBucket, k>>][1]))
                        /\ StatOk(ListBucket, k) \notin CallSet(o)
                   ELSE /\ o.out[i].source = "s3"
                        /\ o.out[i].obj = Some(StatOf(ListBucket, k, remote[<<ListBucket, k>>][1]))
                        /\ StatOk(ListBucket, k) \in CallSet(o)
                        /\ StoredFetched(o, ListBucket, k)

\* the remote stat of key k, raised
StatFailed(b, k) == RemoteCall("stat_object", b, k, FALSE)

\* C28: if the live stat of a key fails during listObjects, the key is omitted
\* from the output, its store record is as before the call, no error reaches the
\* caller, and the listing goes on: every remote key whose stat succeeds is
\* yielded until limit results have been yielded, and never more than limit.
C28_FailedStatSkipsKey ==
    \A mode \in RemoteModes, limit \in LimitRange \cup {None}, failKeys \in SUBSET KeyNames :
      ~ServedFromStore(mode, limit, "") =>
        \A o \in ListNow(ListBucket, "", limit, mode, failKeys) :
          /\ ~o.raised
          /\ \A k \in failKeys :
               StatFailed(ListBucket, k) \in CallSet(o) =>
                 /\ k \notin YieldedSet(o)
                 /\ o.objs[<<ListBucket, k>>] = objects[<<ListBucket, k>>]
          /\ limit # None => Len(o.out) <= limit[1]
          /\ (limit = None \/ Len(o.out) < limit[1]) =>
               (RemoteNames \ failKeys) \subseteq YieldedSet(o)

\* C29: when listObjects streams a remote listing that repeats keys, it yields
\* each key at most once and issues at most one remote stat per key, after one
\* remote listing call.
C29_EachKeyOnce ==
    \A mode \in RemoteModes, limit \in LimitRange \cup {None}, failKeys \in SUBSET KeyNames :
      ~ServedFromStore(mode, limit, "") =>
        \A listing \in RepeatingListings(remote, ListBucket, "") :
          \A o \in ListObjects(objects, fileSize, remote, max_db_size_mb, ttl, now, ListBucket,
                               "", limit, mode, listing, failKeys) :
            /\ \A i \in 1..Len(o.out), j \in 1..Len(o.out) :
                 o.out[i].key = o.out[j].key => i = j
            /\ \A i \in 1..Len(o.calls), j \in 1..Len(o.calls) :
                 /\ o.calls[i].call = "stat_object"
                 /\ o.calls[j].call = "stat_object"
                 /\ o.calls[i].key = o.calls[j].key
                 => i = j
            /\ Cardinality({i \in 1..Len(o.calls) : o.calls[i].call = "list_objects"}) = 1

\* C29 witness: after a listObjects call the remote service holds a and b, the
\* store holds a stale record of a, and a DEFAULT listing of [a, b, a, b] yields
\* [a, b] after one stat of each.
C29_Witness ==
    /\ last.op = "list_objects"
    /\ RemoteNames = {"a", "b"}
    /\ objects[<<ListBucket, "a">>] # None
    /\ IsRowStale(objects[<<ListBucket, "a">>], ttl, now)
    /\ <<"a", "b", "a", "b">> \in RepeatingListings(remote, ListBucket, "")
    /\ \E o \in ListObjects(objects, fileSize, remote, max_db_size_mb, ttl, now, ListBucket,
                            "", None, "DEFAULT", <<"a", "b", "a", "b">>, {}) :
          /\ YieldedKeys(o) = <<"a", "b">>
          /\ Len(o.calls) = 3

\* --------------------------------------------- claims on get_object_tags
\* C30: getObjectTags in DEFAULT, BYPASS or FORCE_REFRESH mode on a record that
\* is fresh but whose tags are null issues a remote tag fetch first; in DEFAULT
\* mode on a fresh record whose tags are not null it issues no remote call,
\* leaves the store as it is and returns the stored tags with source=cache.
C30_NullTagsFetchedStoredTagsServed ==
    \A kk \in FacadeKeys :
      LET row == objects[kk]
      IN  (row # None /\ ~IsRowStale(row, ttl, now)) =>
            /\ row[1].tags = None =>
                 \A mode \in RemoteModes, f \in TagFailures :
                   \A o \in TagsNow(kk, mode, f[1], f[2]) :
                     /\ o.calls # <<>>
                     /\ o.calls[1].call = "get_object_tags"
            /\ row[1].tags # None =>
                 \A f \in TagFailures :
                   \A o \in TagsNow(kk, "DEFAULT", f[1], f[2]) :
                     /\ o.calls = <<>>
                     /\ o.objs = objects
                     /\ Len(o.out) = 1
                     /\ o.out[1].tags = Some(JsonLoads(row[1].tags[1]))
                     /\ o.out[1].source = "cache"
                     /\ o.out[1].cached

\* C30 witness: after a statObject call the store holds a fresh record with null
\* tags, and a DEFAULT getObjectTags fetches the tags from the remote service.
C30_Witness ==
    /\ last.op = "stat_object"
    /\ \E kk \in FacadeKeys :
          /\ objects[kk] # None
          /\ ~IsRowStale(objects[kk], ttl, now)
          /\ objects[kk][1].tags = None
          /\ remote[kk] # None
          /\ \E o \in TagsNow(kk, "DEFAULT", FALSE, FALSE) :
                /\ o.calls = <<RemoteCall("get_object_tags", kk[1], kk[2], TRUE)>>
                /\ o.out[1].source = "s3"

\* ------------------------------ claims on tag writes, deletion and eviction
\* the mapping a TEXT column written by json.dumps reads back as
Decoded(t) == IF TruthyText(t) THEN Some(JsonLoads(t[1])) ELSE None

\* C31: when getObjectTags fetches the tags remotely for a key with no stored
\* record, it issues one remote stat and the store then holds a record with the
\* fetched tags and the etag, size, lastModified and metadata of that stat; when
\* the stat raises the call still returns and the record holds the fetched tags
\* with etag, size, lastModified and metadata null.
C31_TagFetchFillsNewRecord ==
    \A kk \in FacadeKeys, mode \in RemoteModes, failStat \in BOOLEAN :
      \A o \in TagsNow(kk, mode, FALSE, failStat) :
        (objects[kk] = None /\ remote[kk] # None) =>
          /\ ~o.raised
          /\ o.calls = <<TagsCallOk(kk), RemoteCall("stat_object", kk[1], kk[2], ~failStat)>>
          /\ Len(o.out) = 1
          /\ o.out[1].tags = Some(remote[kk][1].tags)
          /\ o.objs[kk] # None
          /\ LET r    == o.objs[kk][1]
                 stat == StatOf(kk[1], kk[2], remote[kk][1])
             IN  /\ Decoded(r.tags) = Some(remote[kk][1].tags)
                 /\ IF failStat
                    THEN /\ r.etag = None
                         /\ r.size = None
                         /\ r.last_modified = None
                         /\ r.metadata = None
                    ELSE /\ r.etag = stat.etag
                         /\ r.size = stat.size
                         /\ r.last_modified = Isoformat(stat.last_modified)
                         /\ Decoded(r.metadata) = stat.metadata

\* clear_cache(): DELETE FROM objects, DELETE FROM buckets, commit; the tables and
\* the file size it leaves
ClearCache(objs, bkts, size, cap) ==
    {[objs |-> [kk \in Keys |-> None], buckets |-> {}, size |-> s] :
        s \in FileAfterDelete(size, cap)}

ClearCacheCall ==
    \E o \in ClearCache(objects, buckets, fileSize, max_db_size_mb) :
      /\ objects' = o.objs
      /\ buckets' = o.buckets
      /\ fileSize' = o.size
      /\ fetchedAt' = [kk \in Keys |-> None]
      /\ last' = [op |-> "clear_cache", bucket |-> "", key |-> ""]
      /\ UNCHANGED <<remote, now, ttl, max_db_size_mb, remoteBuckets, threadVars>>

\* ------------- SpecFrame: every facade operation on two keys of one bucket,
\* called one after the other at one time
FrameBucket == "b1"

FrameKeys == {<<FrameBucket, "a">>, <<FrameBucket, "b">>}

FrameNames == {kk[2] : kk \in FrameKeys}

\* the tags set_object_tags is given
FrameTags == {<<"t", "1">>}

\* new database with no size cap configured (max_db_size_mb = 0); the remote
\* service has bucket b1 with the objects a and b
InitFrame ==
    /\ objects = [kk \in Keys |-> None]
    /\ fileSize = 0
    /\ remote = [kk \in Keys |->
                    IF kk \in FrameKeys
                    THEN Some([ver |-> 1, metadata |-> Some({<<"t", "1">>}), tags |-> EmptyMap])
                    ELSE None]
    /\ now = 1
    /\ ttl = 1
    /\ max_db_size_mb = 0
    /\ fetchedAt = [kk \in Keys |-> None]
    /\ last = NoCall
    /\ buckets = {}
    /\ remoteBuckets = {FrameBucket}
    /\ ThreadsIdle

NextFrame ==
    \/ \E kk \in FrameKeys : remote[kk] = None /\ RemotePut(kk, Some({<<"t", "1">>}))
    \/ \E kk \in FrameKeys : StatObjectCall(kk, "DEFAULT", FALSE)
    \/ \E kk \in FrameKeys : GetObjectTagsCall(kk, "DEFAULT", FALSE, FALSE)
    \/ \E kk \in FrameKeys : SetObjectTagsCall(kk, FrameTags, FALSE)
    \/ ListObjectsCall(FrameBucket, "", None, "DEFAULT", {})
    \/ \E kk \in FrameKeys : RemoveObjectCall(kk, FALSE)
    \/ RemoveObjectsCall(FrameBucket, {"a"}, {}, FALSE)
    \/ CopyObjectCall(<<FrameBucket, "b">>, <<FrameBucket, "a">>, FALSE)
    \/ MakeBucketCall("b2", FALSE)
    \/ ListBucketsCall(FALSE)
    \/ ClearCacheCall

SpecFrame == InitFrame /\ [][NextFrame]_vars

\* the latest call is `op` on the key kk
LastIs(op, kk) == last = [op |-> op, bucket |-> kk[1], key |-> kk[2]]

\* C32: with no size cap, a step of setObjectTags, or of getObjectTags on a key
\* whose record is stored, leaves that record stored with its etag, size,
\* lastModified and metadata as they were, and leaves every other record and the
\* stored bucket names as they were: only the tags and cachedAt of the record
\* can change.
C32_TagUpdateTouchesOnlyTags ==
    [][\A kk \in FrameKeys :
         (/\ max_db_size_mb = 0
          /\ LastIs("set_object_tags", kk)' \/ LastIs("get_object_tags", kk)') =>
           /\ buckets' = buckets
           /\ \A other \in Keys \ {kk} : objects'[other] = objects[other]
           /\ objects[kk] # None =>
                /\ objects'[kk] # None
                /\ objects'[kk][1].etag = objects[kk][1].etag
                /\ objects'[kk][1].size = objects[kk][1].size
                /\ objects'[kk][1].last_modified = objects[kk][1].last_modified
                /\ objects'[kk][1].metadata = objects[kk][1].metadata]_vars

\* C32 witness: with no size cap, a setObjectTags has just rewritten the tags and
\* cachedAt of a record fetched earlier, while another record and a bucket name
\* are stored.
C32_Witness ==
    \E kk \in FrameKeys :
      /\ max_db_size_mb = 0
      /\ LastIs("set_object_tags", kk)
      /\ objects[kk] # None
      /\ objects[kk][1].etag # None
      /\ objects[kk][1].metadata # None
      /\ Decoded(objects[kk][1].tags) = Some(FrameTags)
      /\ objects[kk][1].cached_at = Some(now)
      /\ fetchedAt[kk] # None
      /\ \E other \in FrameKeys \ {kk} : objects[other] # None
      /\ buckets # {}

\* the outcome o of a call made in the current state deleted no record, except
\* the records of the keys in `gone`
KeepsRecords(o, gone) == \A kk \in Keys \ gone : objects[kk] # None => o.objs[kk] # None

\* every call of statObject, getObjectTags, listObjects and setObjectTags in the
\* current state, with every outcome of its remote calls, and every removeObject,
\* removeObjects and copyObject on the keys it does not name
ReadsKeepRecords ==
    /\ \A kk \in FrameKeys, mode \in Modes, fail \in BOOLEAN :
         \A o \in StatNow(kk, mode, fail) : KeepsRecords(o, {})
    /\ \A kk \in FrameKeys, mode \in Modes, f \in TagFailures :
         \A o \in TagsNow(kk, mode, f[1], f[2]) : KeepsRecords(o, {})
    /\ \A kk \in FrameKeys, tags \in TagValues, fail \in BOOLEAN :
         \A o \in SetTagsNow(kk, tags, fail) : KeepsRecords(o, {})
    /\ \A limit \in MergeLimits, mode \in Modes, failKeys \in {{}, FrameNames} :
         \A o \in ListNow(FrameBucket, "", limit, mode, failKeys) : KeepsRecords(o, {})
    /\ \A kk \in FrameKeys :
         /\ \A o \in RemoveNow(kk, TRUE) : KeepsRecords(o, {})
         /\ \A o \in RemoveNow(kk, FALSE) : KeepsRecords(o, {kk})
         /\ \A src \in FrameKeys :
              /\ \A o \in CopyNow(kk, src, TRUE) : KeepsRecords(o, {})
              /\ \A o \in CopyNow(kk, src, FALSE) : KeepsRecords(o, {kk})
    /\ \A names \in SUBSET FrameNames, errs \in SUBSET FrameNames :
         errs \subseteq names =>
           /\ \A o \in RemoveObjectsNow(FrameBucket, names, errs, TRUE) : KeepsRecords(o, {})
           /\ \A o \in RemoveObjectsNow(FrameBucket, names, errs, FALSE) :
                KeepsRecords(o, {<<FrameBucket, n>> : n \in names})

\* C33: with no size cap, no call of statObject, getObjectTags, listObjects or
\* setObjectTags deletes a record, whatever its remote calls do; removeObject,
\* removeObjects and copyObject delete only the records they name, and only when
\* the remote call returned; and in every step in which a stored record
\* disappears, the call made is removeObject or copyObject on that key,
\* removeObjects on its bucket, or clearCache (never listBuckets or makeBucket).
C33_RecordsLeaveOnlyByRemoval ==
    /\ [](max_db_size_mb = 0 => ReadsKeepRecords)
    /\ [][\A kk \in Keys :
            (max_db_size_mb = 0 /\ objects[kk] # None /\ objects'[kk] = None) =>
              \/ LastIs("remove_object", kk)'
              \/ LastIs("copy_object", kk)'
              \/ LastIs("remove_objects", <<kk[1], "">>)'
              \/ LastIs("clear_cache", <<"", "">>)']_vars

\* C33 witness: with no size cap, two records are stored and the bucket names
\* have just been listed; a statObject(BYPASS) of one of the records, whose
\* remote call raises, keeps both records.
C33_Witness ==
    /\ max_db_size_mb = 0
    /\ last.op = "list_buckets"
    /\ buckets # {}
    /\ \A kk \in FrameKeys : objects[kk] # None
    /\ \E kk \in FrameKeys :
         \E o \in StatNow(kk, "BYPASS", TRUE) :
              Len(o.calls) = 1 /\ ~o.calls[1].ok /\ o.objs = objects

\* ------------- SpecEvict: _enforce_db_size_limit statement by statement
\* One thread writes rows; after each commit the eviction run is taken one
\* statement at a time: the first size test, the size test at the head of the
\* `while True` loop, and the SELECT of the oldest batch with its DELETE.  The
\* RLock never blocks the only thread.
EvictThread == "t1"

\* a run of _enforce_db_size_limit is in progress
Evicting == pc[EvictThread] \in {"enforce", "evict_loop", "evict_select"}

\* `size_bytes <= limit_bytes`
UnderLimit == fileSize <= LimitBytes(max_db_size_mb)

\* the thread moves to statement `label`
EvictGoto(label) == pc' = [pc EXCEPT ![EvictThread] = label]

\* _write_object_row for the key kk with the values of its remote object: INSERT
\* OR REPLACE and commit, then `if self.max_db_size_mb and self.max_db_size_mb > 0`
PutRow(kk) ==
    /\ pc[EvictThread] = "idle"
    /\ remote[kk] # None
    /\ LET stat == StatOf(kk[1], kk[2], remote[kk][1])
           row  == NewRow(stat.etag, stat.size, stat.last_modified, stat.metadata, None, now)
       IN  /\ objects' = [objects EXCEPT ![kk] = Some(row)]
           /\ lastPut' = Some(row)
    /\ fileSize' \in FileAfterWrite(fileSize, max_db_size_mb)
    /\ EvictGoto(IF max_db_size_mb # 0 /\ max_db_size_mb > 0 THEN "enforce" ELSE "idle")
    /\ UNCHANGED <<remote, now, ttl, max_db_size_mb, fetchedAt, last, buckets, remoteBuckets,
                   lock, local>>

\* _enforce_db_size_limit: the size test before the loop returns, or the loop is
\* entered
EnforceTest ==
    /\ pc[EvictThread] = "enforce"
    /\ EvictGoto(IF UnderLimit THEN "idle" ELSE "evict_loop")
    /\ UNCHANGED <<objects, fileSize, remote, now, ttl, max_db_size_mb, fetchedAt, last,
                   buckets, remoteBuckets, lock, local, lastPut>>

\* the head of `while True`: the file size is read again; at or below the limit
\* the loop breaks
LoopTest ==
    /\ pc[EvictThread] = "evict_loop"
    /\ EvictGoto(IF UnderLimit THEN "idle" ELSE "evict_select")
    /\ UNCHANGED <<objects, fileSize, remote, now, ttl, max_db_size_mb, fetchedAt, last,
                   buckets, remoteBuckets, lock, local, lastPut>>

\* a batch delete that empties the buckets table as well
SelectAndDeleteWithBuckets ==
    /\ pc[EvictThread] = "evict_select"
    /\ IF Present(objects) = {}
       THEN /\ EvictGoto("idle")
            /\ UNCHANGED <<objects, fileSize, buckets>>
       ELSE /\ \E B \in OldestBatches(objects) : objects' = DeleteRows(objects, B)
            /\ fileSize' \in FileAfterDelete(fileSize, max_db_size_mb)
            /\ buckets' = {}
            /\ EvictGoto("evict_loop")
    /\ UNCHANGED <<remote, now, ttl, max_db_size_mb, fetchedAt, last, remoteBuckets,
                   lock, local, lastPut>>

\* the SELECT of the oldest rows: none left breaks the loop; otherwise they are
\* deleted, the delete is committed and the loop goes round
SelectAndDelete ==
    /\ pc[EvictThread] = "evict_select"
    /\ IF Present(objects) = {}
       THEN /\ EvictGoto("idle")
            /\ UNCHANGED <<objects, fileSize>>
       ELSE /\ \E B \in OldestBatches(objects) : objects' = DeleteRows(objects, B)
            /\ fileSize' \in FileAfterDelete(fileSize, max_db_size_mb)
            /\ EvictGoto("evict_loop")
    /\ UNCHANGED <<remote, now, ttl, max_db_size_mb, fetchedAt, last, buckets, remoteBuckets,
                   lock, local, lastPut>>

\* the statements of a run
EvictStep == EnforceTest \/ LoopTest \/ SelectAndDelete

\* new database; the remote service holds both buckets and one object per key of
\* StoreKeys
InitEvict ==
    /\ objects = [kk \in Keys |-> None]
    /\ fileSize = 0
    /\ remote = [kk \in Keys |->
                    IF kk \in StoreKeys
                    THEN Some([ver |-> 1, metadata |-> Some({<<"t", "1">>}), tags |-> EmptyMap])
                    ELSE None]
    /\ now = 1
    /\ ttl \in TtlValues
    /\ max_db_size_mb \in CapValues
    /\ fetchedAt = [kk \in Keys |-> None]
    /\ last = NoCall
    /\ buckets = {}
    /\ remoteBuckets = BucketNames
    /\ ThreadsIdle

NextEvict ==
    \/ Tick
    \/ \E kk \in StoreKeys : PutRow(kk)
    \/ pc[EvictThread] = "idle" /\ ListBucketsCall(FALSE)
    \/ EnforceTest
    \/ LoopTest
    \/ SelectAndDelete

\* the thread that is inside a run goes on running
SpecEvict == InitEvict /\ [][NextEvict]_vars /\ WF_vars(EvictStep)

\* C34: every eviction run started by a write ends; it ends only with the file at
\* or below the cap or with the objects table empty, it deletes rows only while
\* the file is over the cap, and it ends also when no delete makes the file
\* smaller.
C34_EvictionTerminates ==
    /\ Evicting ~> ~Evicting
    /\ [][(Evicting /\ ~Evicting') => (UnderLimit \/ Present(objects) = {})]_vars
    /\ [][(Evicting /\ objects' # objects) => ~UnderLimit]_vars

\* C34 witness: a run has ended with the objects table empty and the file still
\* over the cap: its deletes did not bring the file down.
C34_Witness ==
    /\ ~Evicting
    /\ lastPut # None
    /\ max_db_size_mb > 0
    /\ Present(objects) = {}
    /\ ~UnderLimit

\* C35: no statement of an eviction run changes the buckets table: from the
\* commit that starts a run to its end the stored bucket names stay as they
\* were, whatever the file size and the cap.
C35_EvictionKeepsBuckets ==
    [][Evicting => buckets' = buckets]_vars

\* C35 witness: bucket names are stored, and a run over the cap has ended after
\* deleting every object record, the one just written included.
C35_Witness ==
    /\ buckets = BucketNames
    /\ ~Evicting
    /\ max_db_size_mb > 0
    /\ lastPut # None
    /\ objects = [kk \in Keys |-> None]
    /\ fileSize > LimitBytes(max_db_size_mb)

\* ------------- SpecTags: stat refreshes of one object whose tags are stored
\* new database; the remote service holds the object b1/a
InitTags ==
    /\ objects = [kk \in Keys |-> None]
    /\ fileSize = 0
    /\ remote = [kk \in Keys |->
                    IF kk \in FacadeKeys
                    THEN Some([ver |-> 1, metadata |-> Some({<<"t", "1">>}), tags |-> EmptyMap])
                    ELSE None]
    /\ now = 1
    /\ ttl \in TtlValues
    /\ max_db_size_mb \in CapValues
    /\ fetchedAt = [kk \in Keys |-> None]
    /\ last = NoCall
    /\ buckets = {}
    /\ remoteBuckets = BucketNames
    /\ ThreadsIdle

NextTags ==
    \/ Tick
    \/ \E kk \in FacadeKeys, mode \in RemoteModes : StatObjectCall(kk, mode, FALSE)
    \/ \E kk \in FacadeKeys : GetObjectTagsCall(kk, "DEFAULT", FALSE, FALSE)
    \/ \E kk \in FacadeKeys, tags \in TagValues : SetObjectTagsCall(kk, tags, FALSE)
    \/ \E mode \in {"DEFAULT", "BYPASS"} : ListObjectsCall("b1", "", None, mode, {})

SpecTags == InitTags /\ [][NextTags]_vars

\* the outcome o of a call that fetched the stat of kk left the whole row of that
\* stat with tags NULL (or no row, when the eviction run of the write deleted
\* it), and a getObjectTags(DEFAULT) made after it, at any later time, begins
\* with a remote tag fetch
TagsDiscarded(o, kk) ==
    LET stat == StatOf(kk[1], kk[2], remote[kk][1])
    IN  /\ o.objs[kk] # None =>
             o.objs[kk] = Some(NewRow(stat.etag, stat.size, stat.last_modified, stat.metadata,
                                      None, now))
        /\ \A t2 \in now..MaxTime, failTags \in BOOLEAN :
             \A o2 \in TagsAfter(o, t2, kk, "DEFAULT", failTags, FALSE) :
               /\ o2.calls # <<>>
               /\ o2.calls[1] = RemoteCall("get_object_tags", kk[1], kk[2], ~failTags)

CallRemoveObject(t) ==
    /\ pc[t] = "idle"
    /\ pc' = [pc EXCEPT ![t] = "remove"]
    /\ UNCHANGED <<objects, fileSize, remote, now, ttl, max_db_size_mb, fetchedAt, last,
                   buckets, remoteBuckets, lock, local, lastPut>>

\* self._client.remove_object returns, the object is gone from the remote
\* service; or it raises, and remove_object raises
RemoveReturns(t, fail) ==
    /\ pc[t] = "remove"
    /\ IF fail
       THEN /\ pc' = [pc EXCEPT ![t] = "idle"]
            /\ last' = [op |-> "remove_object", bucket |-> ThreadKey[1], key |-> ThreadKey[2]]
            /\ UNCHANGED remote
       ELSE /\ pc' = [pc EXCEPT ![t] = "delete_row"]
            /\ remote' = [remote EXCEPT ![ThreadKey] = None]
            /\ UNCHANGED last
    /\ UNCHANGED <<objects, fileSize, now, ttl, max_db_size_mb, fetchedAt, buckets,
                   remoteBuckets, lock, local, lastPut>>

\* _delete_object_row: `with self._lock, self._conn:` entered
DeleteRowEnter(t) ==
    /\ pc[t] = "delete_row"
    /\ LockFree(t)
    /\ lock' = Acquired(t)
    /\ pc' = [pc EXCEPT ![t] = "delete_row_locked"]
    /\ UNCHANGED <<objects, fileSize, remote, now, ttl, max_db_size_mb, fetchedAt, last,
                   buckets, remoteBuckets, local, lastPut>>

\* _delete_object_row: DELETE and commit, the lock released; remove_object returns
DeleteRowExit(t) ==
    /\ pc[t] = "delete_row_locked"
    /\ \E w \in DeleteObjectRow(objects, fileSize, max_db_size_mb, ThreadKey[1], ThreadKey[2]) :
          objects' = w[1] /\ fileSize' = w[2]
    /\ lock' = Released
    /\ pc' = [pc EXCEPT ![t] = "idle"]
    /\ last' = [op |-> "remove_object", bucket |-> ThreadKey[1], key |-> ThreadKey[2]]
    /\ UNCHANGED <<remote, now, ttl, max_db_size_mb, fetchedAt, buckets, remoteBuckets,
                   local, lastPut>>

\* the object is on the remote service until a remove_object removes it; no other
\* client changes it
NextRace ==
    \/ Tick
    \/ \E t \in Threads, mode \in ThreadModes : CallStatObject(t, mode)
    \/ \E t \in Threads : GetRowEnter(t)
    \/ \E t \in Threads : GetRowExit(t)
    \/ \E t \in Threads, fail \in BOOLEAN : StatReturns(t, fail)
    \/ \E t \in Threads : WriteRowEnter(t)
    \/ \E t \in Threads : InsertRow(t)
    \/ \E t \in Threads : EnforceEnter(t)
    \/ \E t \in Threads : EnforceExit(t)
    \/ \E t \in Threads : WriteRowExit(t)
    \/ \E t \in Threads : CallRemoveObject(t)
    \/ \E t \in Threads, fail \in BOOLEAN : RemoveReturns(t, fail)
    \/ \E t \in Threads : DeleteRowEnter(t)
    \/ \E t \in Threads : DeleteRowExit(t)

SpecRace == InitThreads /\ [][NextRace]_vars

\* C37: when removeObject runs concurrently with statObject refreshes of the same
\* key, then once every call has returned and the object is gone from the remote
\* service, the store holds no record of the key.
C37_RemovalBeatsRefresh ==
    ((\A t \in Threads : pc[t] = "idle") /\ remote[ThreadKey] = None) =>
      objects[ThreadKey] = None

\* C38: with a positive size cap, after a statObject that fetched the object
\* remotely the store holds the record just written: the eviction run of that
\* write has not deleted it, and a statObject(CACHE_ONLY) made next returns it.
C38_EvictionSparesRowJustWritten ==
    \A kk \in StoreKeys, mode \in RemoteModes :
      \A o \in StatNow(kk, mode, FALSE) :
        (max_db_size_mb > 0 /\ StatCallOk(kk) \in CallSet(o)) =>
          LET stat == StatOf(kk[1], kk[2], remote[kk][1])
          IN  /\ o.objs[kk] = Some(NewRow(stat.etag, stat.size, stat.last_modified,
                                          stat.metadata, None, now))
              /\ \A o2 \in StatAfter(o, now, kk, "CACHE_ONLY", FALSE) :
                   /\ o2.out[1].cached
                   /\ o2.out[1].source = "cache"
                   /\ o2.out[1].obj # None
                   /\ o2.out[1].obj[1].etag = stat.etag

\* ------------- SpecMake: buckets created only through make_bucket
\* the names make_bucket is called with
MakeNames == {"b1", "b2", "b3"}

\* new database; the remote service has no bucket yet
InitMake ==
    /\ objects = [kk \in Keys |-> None]
    /\ fileSize = 0
    /\ remote = [kk \in Keys |-> None]
    /\ now = 1
    /\ ttl \in TtlValues
    /\ max_db_size_mb \in CapValues
    /\ fetchedAt = [kk \in Keys |-> None]
    /\ last = NoCall
    /\ buckets = {}
    /\ remoteBuckets = {}
    /\ ThreadsIdle

NextMake ==
    \/ Tick
    \/ \E name \in MakeNames, fail \in BOOLEAN : MakeBucketCall(name, fail)
    \/ \E fail \in BOOLEAN : ListBucketsCall(fail)

SpecMake == InitMake /\ [][NextMake]_vars

\* C39: when every bucket of the remote service was created through makeBucket
\* and none was deleted, a listBuckets that returns, after any sequence of
\* makeBucket and listBuckets calls, returns every bucket of the remote service
\* (and no other name).
C39_ListBucketsReturnsEveryBucket ==
    \A fail \in BOOLEAN :
      LET o == ListBucketsNow(fail)
      IN  ~o.raised => o.out = remoteBuckets

\* C39 witness: makeBucket calls came before any listBuckets could fill the store
\* from the remote service; the latest one created a second bucket, and
\* listBuckets now returns both from the store without a remote call.
C39_Witness ==
    /\ last.op = "make_bucket"
    /\ last.bucket \in remoteBuckets
    /\ Cardinality(remoteBuckets) >= 2
    /\ ListBucketsNow(TRUE).calls = <<>>
    /\ ListBucketsNow(TRUE).out = remoteBuckets

\* C40: after every sequence of facade operations each stored record has a
\* cachedAt that is not null and not later than the current time, so
\* _is_row_stale never meets a null cachedAt in a record the facade wrote.
C40_CachedAtSetAndNotLater ==
    \A kk \in Keys :
      objects[kk] # None =>
        /\ objects[kk][1].cached_at # None
        /\ objects[kk][1].cached_at[1] <= now

\* C40 witness: time has passed since a tag update rewrote the record of a key
\* that a statObject had written earlier.
C40_Witness ==
    \E kk \in FacadeKeys :
      /\ last.op \in {"get_object_tags", "set_object_tags"}
      /\ objects[kk] # None
      /\ objects[kk][1].tags # None
      /\ fetchedAt[kk] # None
      /\ objects[kk][1].cached_at # None
      /\ fetchedAt[kk][1] < objects[kk][1].cached_at[1]
      /\ objects[kk][1].cached_at[1] < now

====
